---- MODULE Spec2Model ----
(***************************************************************************)
(* A model of winaws (broven/aws-windows-provisioner): the key material    *)
(* manager (core/keypair.py), the password retrieval engine                *)
(* (core/password.py) and the stack lifecycle waits                        *)
(* (core/cloudformation.py).  The cloud provider and the local file system *)
(* are the environment: every provider call and every file operation       *)
(* chooses nondeterministically among the outcomes it can really have      *)
(* (an answer, a botocore ClientError, any other exception, an OSError).   *)
(***************************************************************************)
EXTENDS Integers, Sequences, FiniteSets, TLC

VARIABLES
    aws_key,     \* provider registration of key_name: 0 = none, else the pair's id
    key_file,    \* the file at key_path: [content, mode], NoFile when absent
    next_key,    \* id of the next pair the provider generates
    kp,          \* per invocation of create_key_pair: position, locals, history
    now,         \* time.time(), in seconds
    pw,          \* the invocation of get_instance_password: position, locals, history
    pw_seen,     \* <<exit, value>> of every return of get_instance_password so far
    stack,       \* the provider's status of the stack stack_name, NoStack if none
    cw,          \* the invocation of wait_for_stack_creation / _deletion
    sk,          \* the invocation of create_stack / delete_stack
    dk,          \* the invocation of delete_key_pair
    inst,        \* the provider's instances: id -> [region, state, managed_by]
    cmd          \* the command the process runs: arguments, position, locals, history

keyVars == <<aws_key, key_file, next_key, kp>>

pwVars == <<pw, pw_seen>>

cfnVars == <<stack, cw>>

vars == <<aws_key, key_file, next_key, kp, now, pw, pw_seen, stack, cw, sk, dk, inst, cmd>>

\* what the key material manager leaves alone
KeyFrame == UNCHANGED <<now, pwVars, cfnVars, sk, dk, inst, cmd>>
\* what the password retrieval engine leaves alone (it reads key_file)
PwFrame == UNCHANGED <<keyVars, cfnVars, sk, dk, inst, cmd>>
\* what the stack lifecycle manager leaves alone
CfnFrame == UNCHANGED <<keyVars, pwVars, sk, dk, inst, cmd>>

(***************************************************************************)
(* Bounds of the model.                                                    *)
(***************************************************************************)
\* pairs the provider generates in one behaviour (ids InitKeys+1 .. InitKeys+MaxNewKeys)
MaxNewKeys == 2
\* calls of create_key_pair one invocation slot makes in a row
MaxKeyCalls == 2
\* seconds one provider call may take: 0..MaxCallSecs
MaxCallSecs == 1
\* seconds time.sleep(n) may oversleep: 0..MaxSlack
MaxSlack == 1
\* calls of get_instance_password in one behaviour
MaxPwCalls == 2
\* calls of delete_key_pair in a behaviour
MaxDkpCalls == 3

(***************************************************************************)
(* Values.                                                                 *)
(***************************************************************************)
None == "None"
\* no file at key_path
NoFile == [content |-> 0, mode |-> "absent"]
\* str(key_path): get_key_path(key_name), one key name throughout
KeyPath == "~/.winaws/keys/key_name.pem"
\* key_path.chmod(0o600)
OwnerOnly == "0600"
\* the mode write_text creates a new file with (0666 & ~umask)
UmaskMode == "0644"
\* pair ids that may exist before the first call: 1 and 2
InitKeys == 2
\* a file's content is the id of the pair whose private key it holds;
\* content 0 is a file with no usable key material (truncated write)

Runs == {1, 2}

HasEvent(log, e) == \E i \in 1..Len(log) : log[i] = e

IdleRun == [pc |-> "idle", ret |-> "-", private_key |-> 0, log |-> <<>>,
            file0 |-> NoFile, aws0 |-> 0, next0 |-> 0, calls |-> 0,
            file1 |-> NoFile, aws1 |-> 0]

(***************************************************************************)
(* create_key_pair(region, key_name), one step per statement that touches  *)
(* the provider or the file system.                                        *)
(***************************************************************************)
\* the function returns v after event e (file1, aws1: the file and the
\* registration as the statement that returns found them)
KeyReturn(r, v, e) ==
    kp' = [kp EXCEPT ![r].pc = "returned", ![r].ret = v, ![r].log = Append(@, e),
                     ![r].file1 = key_file, ![r].aws1 = aws_key]

KeyGoto(r, pc, e) ==
    kp' = [kp EXCEPT ![r].pc = pc, ![r].log = Append(@, e)]

\* entry: ec2 = get_ec2_client(region); key_path = get_key_path(key_name)
\* (neither touches the provider; the mkdir of get_keys_directory has
\* exist_ok=True)
CreateKeyPairCall(r) ==
    /\ kp[r].pc \in {"idle", "returned"}
    /\ kp[r].calls < MaxKeyCalls
    /\ kp' = [kp EXCEPT ![r] = [pc |-> "exists", ret |-> "-", private_key |-> 0,
                                log |-> <<>>, file0 |-> key_file, aws0 |-> aws_key,
                                next0 |-> next_key, calls |-> @.calls + 1,
                                file1 |-> NoFile, aws1 |-> 0]]
    /\ UNCHANGED <<aws_key, key_file, next_key>>
    /\ KeyFrame

\* mutant: the local file alone is taken as proof of the pair (no describe)
KeyExists_NoVerify(r) ==
    /\ kp[r].pc = "exists"
    /\ IF key_file # NoFile
          THEN KeyReturn(r, KeyPath, "exists:True")
          ELSE KeyGoto(r, "delete", "exists:False")
    /\ UNCHANGED <<aws_key, key_file, next_key>>
    /\ KeyFrame

\* if key_path.exists():
KeyExists(r) ==
    /\ kp[r].pc = "exists"
    /\ IF key_file # NoFile
          THEN KeyGoto(r, "describe", "exists:True")
          ELSE KeyGoto(r, "delete", "exists:False")
    /\ UNCHANGED <<aws_key, key_file, next_key>>
    /\ KeyFrame

\* what ec2.describe_key_pairs(KeyNames=[key_name]) can do
DescribeKeyOutcomes ==
    (IF aws_key # 0 THEN {"ok"} ELSE {"NotFound"}) \cup {"ClientError", "Exception"}

\* mutant: a ClientError of the describe is swallowed and the file reused
KeyDescribe_Swallow(r) ==
    /\ kp[r].pc = "describe"
    /\ \E o \in DescribeKeyOutcomes :
          CASE o = "ok" -> KeyReturn(r, KeyPath, "describe:ok")
            [] o \in {"NotFound", "ClientError"} -> KeyReturn(r, KeyPath, "describe:" \o o)
            [] OTHER -> KeyReturn(r, None, "describe:Exception")
    /\ UNCHANGED <<aws_key, key_file, next_key>>
    /\ KeyFrame

\* try: ec2.describe_key_pairs(...); return str(key_path)
\* except ec2.exceptions.ClientError: -> key_path.unlink()
\* any other exception reaches the outer handler: return None
KeyDescribe(r) ==
    /\ kp[r].pc = "describe"
    /\ \E o \in DescribeKeyOutcomes :
          CASE o = "ok" -> KeyReturn(r, KeyPath, "describe:ok")
            [] o \in {"NotFound", "ClientError"} -> KeyGoto(r, "unlink", "describe:" \o o)
            [] OTHER -> KeyReturn(r, None, "describe:Exception")
    /\ UNCHANGED <<aws_key, key_file, next_key>>
    /\ KeyFrame

\* mutant: the stale file is kept and its path returned
KeyUnlink_Reuse(r) ==
    /\ kp[r].pc = "unlink"
    /\ \/ /\ key_file # NoFile
          /\ UNCHANGED key_file
          /\ KeyReturn(r, KeyPath, "unlink:ok")
       \/ /\ UNCHANGED key_file
          /\ KeyReturn(r, None, "unlink:OSError")
    /\ UNCHANGED <<aws_key, next_key>>
    /\ KeyFrame

\* key_path.unlink(): FileNotFoundError when the file is gone, or another OSError
KeyUnlink(r) ==
    /\ kp[r].pc = "unlink"
    /\ \/ /\ key_file # NoFile
          /\ key_file' = NoFile
          /\ KeyGoto(r, "delete", "unlink:ok")
       \/ /\ UNCHANGED key_file
          /\ KeyReturn(r, None, "unlink:OSError")
    /\ UNCHANGED <<aws_key, next_key>>
    /\ KeyFrame

\* try: ec2.delete_key_pair(KeyName=key_name) except ClientError: pass
\* (the provider answers ok whether or not the pair was registered)
KeyDeleteRemote(r) ==
    /\ kp[r].pc = "delete"
    /\ \/ /\ aws_key' = 0
          /\ KeyGoto(r, "create", "delete:ok")
       \/ /\ UNCHANGED aws_key
          /\ KeyGoto(r, "create", "delete:ClientError")
       \/ /\ UNCHANGED aws_key
          /\ KeyReturn(r, None, "delete:Exception")
    /\ UNCHANGED <<key_file, next_key>>
    /\ KeyFrame

\* response = ec2.create_key_pair(KeyName=key_name); private_key = response['KeyMaterial']
\* (InvalidKeyPair.Duplicate when the name is still registered)
KeyCreateRemote(r) ==
    /\ kp[r].pc = "create"
    /\ \/ /\ aws_key = 0
          /\ next_key <= InitKeys + MaxNewKeys
          /\ aws_key' = next_key
          /\ next_key' = next_key + 1
          /\ kp' = [kp EXCEPT ![r].pc = "write", ![r].private_key = next_key,
                              ![r].log = Append(@, "create:ok")]
       \/ /\ aws_key # 0
          /\ UNCHANGED <<aws_key, next_key>>
          /\ KeyReturn(r, None, "create:Duplicate")
       \/ /\ UNCHANGED <<aws_key, next_key>>
          /\ KeyReturn(r, None, "create:Exception")
    /\ UNCHANGED key_file
    /\ KeyFrame

\* key_path.write_text(private_key): creates the file with the umask's mode,
\* keeps the mode of a file that is there; an OSError leaves no file change
\* (open failed) or a truncated file (write failed)
KeyWrite(r) ==
    /\ kp[r].pc = "write"
    /\ LET mode == IF key_file = NoFile THEN UmaskMode ELSE key_file.mode
       IN  \/ /\ key_file' = [content |-> kp[r].private_key, mode |-> mode]
              /\ KeyGoto(r, "chmod", "write:ok")
           \/ /\ UNCHANGED key_file
              /\ KeyReturn(r, None, "write:OSError")
           \/ /\ key_file' = [content |-> 0, mode |-> mode]
              /\ KeyReturn(r, None, "write:OSError")
    /\ UNCHANGED <<aws_key, next_key>>
    /\ KeyFrame

\* key_path.chmod(0o600); return str(key_path)
KeyChmod(r) ==
    /\ kp[r].pc = "chmod"
    /\ \/ /\ key_file # NoFile
          /\ key_file' = [key_file EXCEPT !.mode = OwnerOnly]
          /\ KeyReturn(r, KeyPath, "chmod:ok")
       \/ /\ UNCHANGED key_file
          /\ KeyReturn(r, None, "chmod:OSError")
    /\ UNCHANGED <<aws_key, next_key>>
    /\ KeyFrame

(***************************************************************************)
(* Password material and decrypt_password.                                 *)
(***************************************************************************)
\* the pair the instance was launched with
InstanceKey == 1
\* PasswordData of get_password_data: "" until the instance has generated
\* the password, then base64 of the RSA ciphertext.  form says what the
\* provider's blob is: well formed, not base64, plaintext bytes that are
\* not UTF-8, or an empty plaintext
Materials == [key : {InstanceKey}, form : {"ok", "bad_base64", "bad_utf8", "empty"}]

\* what decrypt_password(encrypted_password, private_key_path) can return:
\* read_bytes and load_pem_private_key raise on a missing or truncated file,
\* b64decode on a malformed blob, decrypt on a padding error, decode on bytes
\* that are not UTF-8; every exception is caught and gives None.  With the
\* wrong key the PKCS#1 v1.5 padding check fails, or passes by chance on
\* bytes that then may or may not decode.
decrypt_password(m, file) ==
    IF file = NoFile \/ file.content = 0 THEN {None}
    ELSE IF m.form = "bad_base64" THEN {None}
    ELSE IF file.content # m.key THEN {None, "garbage"}
    ELSE IF m.form = "bad_utf8" THEN {None}
    ELSE IF m.form = "empty" THEN {""}
    ELSE {"Passw0rd"}

(***************************************************************************)
(* get_instance_password(region, instance_id, private_key_path, max_wait,  *)
(* poll_interval).                                                         *)
(***************************************************************************)
\* max_wait: int = 300
DefaultMaxWait == 300
\* poll_interval: int = 10
DefaultPollInterval == 10
PwMaxWaits == {0, 25, DefaultMaxWait}
PwPollIntervals == {DefaultPollInterval, 15}
\* what time.time() reads when an invocation is entered
EntryTimes == {7}

IdlePwRec == [pc |-> "idle", start_time |-> 0, max_wait |-> 0, poll_interval |-> 0,
              queries |-> 0, empties |-> 0, sleeps |-> 0, decrypts |-> 0,
              exact |-> TRUE, password_data |-> "", retrieved_at |-> 0, ret |-> "-", exit |-> "-",
              error |-> "-", calls |-> 0]

\* the function returns v through exit x, having printed error message e
PwReturn(x, v, e, rec) ==
    /\ pw' = [rec EXCEPT !.pc = "returned", !.exit = x, !.ret = v, !.error = e]
    /\ pw_seen' = pw_seen \cup {<<x, v>>}

\* entry: ec2 = get_ec2_client(region); start_time = time.time()
\* (each invocation reads the clock against an epoch of EntryTimes)
GetInstancePasswordCall ==
    /\ pw.pc \in {"idle", "returned"}
    /\ pw.calls < MaxPwCalls
    /\ \E t \in EntryTimes, mw \in PwMaxWaits, pi \in PwPollIntervals :
          /\ now' = t
          /\ pw' = [IdlePwRec EXCEPT !.pc = "while", !.start_time = t, !.max_wait = mw,
                                     !.poll_interval = pi, !.calls = pw.calls + 1]
    /\ UNCHANGED pw_seen
    /\ PwFrame

\* mutant: gives up when the next sleep would pass max_wait
PwWhile_Early ==
    /\ pw.pc = "while"
    /\ IF now - pw.start_time + pw.poll_interval < pw.max_wait
          THEN pw' = [pw EXCEPT !.pc = "query"] /\ UNCHANGED pw_seen
          ELSE PwReturn("timeout", None, "Timeout waiting for password data", pw)
    /\ UNCHANGED now
    /\ PwFrame

\* mutant: the timeout is returned as a tagged value
PwWhile_Tagged ==
    /\ pw.pc = "while"
    /\ IF now - pw.start_time < pw.max_wait
          THEN pw' = [pw EXCEPT !.pc = "query"] /\ UNCHANGED pw_seen
          ELSE PwReturn("timeout", "Timeout", "Timeout waiting for password data", pw)
    /\ UNCHANGED now
    /\ PwFrame

\* while time.time() - start_time < max_wait:  ... else the timeout return
PwWhile ==
    /\ pw.pc = "while"
    /\ IF now - pw.start_time < pw.max_wait
          THEN pw' = [pw EXCEPT !.pc = "query"] /\ UNCHANGED pw_seen
          ELSE PwReturn("timeout", None, "Timeout waiting for password data", pw)
    /\ UNCHANGED now
    /\ PwFrame

\* response = ec2.get_password_data(InstanceId=instance_id)
\* password_data = response.get('PasswordData', ''); if password_data: ...
\* except Exception: print_error("Error retrieving password"); return None
PwQuery ==
    /\ pw.pc = "query"
    /\ \E d \in 0..MaxCallSecs :
          /\ now' = now + d
          /\ LET asked == [pw EXCEPT !.queries = @ + 1, !.exact = @ /\ d = 0]
             IN  \/ \E m \in Materials :
                       /\ pw' = [asked EXCEPT !.pc = "decrypt", !.password_data = m,
                                               !.retrieved_at = now + d]
                       /\ UNCHANGED pw_seen
                 \/ /\ pw' = [asked EXCEPT !.pc = "sleep", !.empties = @ + 1]
                    /\ UNCHANGED pw_seen
                 \/ PwReturn("error", None, "Error retrieving password", asked)
    /\ PwFrame

\* mutant: a failed decryption falls through to the sleep and the next poll
PwDecrypt_Retry ==
    /\ pw.pc = "decrypt"
    /\ \E password \in decrypt_password(pw.password_data, key_file) :
          LET tried == [pw EXCEPT !.decrypts = @ + 1]
          IN  IF password \notin {None, ""}
                 THEN PwReturn("decrypted", password, "-", tried)
                 ELSE pw' = [tried EXCEPT !.pc = "sleep"] /\ UNCHANGED pw_seen
    /\ UNCHANGED now
    /\ PwFrame

\* password = decrypt_password(password_data, private_key_path)
\* if password: return password
\* else: print_error("Failed to decrypt password"); return None
PwDecrypt ==
    /\ pw.pc = "decrypt"
    /\ \E password \in decrypt_password(pw.password_data, key_file) :
          LET tried == [pw EXCEPT !.decrypts = @ + 1]
          IN  IF password \notin {None, ""}
                 THEN PwReturn("decrypted", password, "-", tried)
                 ELSE PwReturn("decrypt_failed", None, "Failed to decrypt password", tried)
    /\ UNCHANGED now
    /\ PwFrame

\* mutant: the sleep is the fixed time.sleep(10) of the stack waits
PwSleep_Fixed ==
    /\ pw.pc = "sleep"
    /\ \E slack \in 0..MaxSlack :
          /\ now' = now + DefaultPollInterval + slack
          /\ pw' = [pw EXCEPT !.pc = "while", !.sleeps = @ + 1,
                              !.exact = @ /\ slack = 0]
    /\ UNCHANGED pw_seen
    /\ PwFrame

\* time.sleep(poll_interval)
PwSleep ==
    /\ pw.pc = "sleep"
    /\ \E slack \in 0..MaxSlack :
          /\ now' = now + pw.poll_interval + slack
          /\ pw' = [pw EXCEPT !.pc = "while", !.sleeps = @ + 1,
                              !.exact = @ /\ slack = 0]
    /\ UNCHANGED pw_seen
    /\ PwFrame


(***************************************************************************)
(* The provider's stack, and describe_stacks.                              *)
(***************************************************************************)
NoStack == "NONE"
StackStatuses == {"CREATE_IN_PROGRESS", "CREATE_COMPLETE", "CREATE_FAILED",
                  "ROLLBACK_IN_PROGRESS", "ROLLBACK_COMPLETE", "ROLLBACK_FAILED",
                  "DELETE_IN_PROGRESS", "DELETE_FAILED", "DELETE_COMPLETE"}
\* elif status in ['CREATE_FAILED', 'ROLLBACK_COMPLETE', 'ROLLBACK_FAILED']
CreateFailures == {"CREATE_FAILED", "ROLLBACK_COMPLETE", "ROLLBACK_FAILED"}
\* the ClientError of a describe of a stack that is not there
DoesNotExist == "does not exist"

\* the provider's own progress of the stack, and a deletion another
\* operator requests: the tool holds no lock over the stack
StackProgress ==
    /\ stack' \in
          CASE stack = "CREATE_IN_PROGRESS" ->
                   {"CREATE_COMPLETE", "CREATE_FAILED", "ROLLBACK_IN_PROGRESS"}
            [] stack = "ROLLBACK_IN_PROGRESS" -> {"ROLLBACK_COMPLETE", "ROLLBACK_FAILED"}
            [] stack = "DELETE_IN_PROGRESS" -> {"DELETE_FAILED", "DELETE_COMPLETE"}
            [] stack \in {"CREATE_COMPLETE", "CREATE_FAILED", "ROLLBACK_COMPLETE",
                          "ROLLBACK_FAILED", "DELETE_FAILED"} -> {"DELETE_IN_PROGRESS"}
            [] OTHER -> {}
    /\ UNCHANGED <<now, cw>>
    /\ CfnFrame

\* what cfn.describe_stacks(StackName=stack_name) can answer: the status, or
\* a ClientError (does not exist: no such stack; a deleted stack is reported
\* so when stack_name is its name and as DELETE_COMPLETE when it is its id;
\* or any other client error), or an exception that is no ClientError
DescribeStackOutcomes ==
    (IF stack = NoStack THEN {DoesNotExist}
     ELSE IF stack = "DELETE_COMPLETE" THEN {DoesNotExist, stack}
     ELSE {stack})
    \cup {"ClientError", "Exception"}

(***************************************************************************)
(* wait_for_stack_creation(region, stack_name, timeout) and                *)
(* wait_for_stack_deletion(region, stack_name, timeout).                   *)
(***************************************************************************)
\* timeout: int = 600
DefaultTimeout == 600
\* time.sleep(10)
SleepSecs == 10
CfnTimeouts == {0, 25, DefaultTimeout}

IdleWait == [fn |-> "-", pc |-> "idle", start_time |-> 0, timeout |-> 0,
             status |-> "-", last |-> "-", describes |-> 0,
             fail_seen |-> FALSE, calls |-> {}, ret |-> "-", exit |-> "-"]

WaitReturn(x, v, rec) ==
    cw' = [rec EXCEPT !.pc = "returned", !.exit = x, !.ret = v]

\* entry: cfn = get_cloudformation_client(region); start_time = time.time()
WaitForStackCreationCall ==
    /\ cw.pc = "idle"
    /\ \E t \in EntryTimes, to \in CfnTimeouts :
          /\ now' = t
          /\ cw' = [IdleWait EXCEPT !.fn = "create", !.pc = "while", !.start_time = t,
                                    !.timeout = to]
    /\ UNCHANGED stack
    /\ CfnFrame

\* entry: cfn = get_cloudformation_client(region); start_time = time.time()
WaitForStackDeletionCall ==
    /\ cw.pc = "idle"
    /\ \E t \in EntryTimes, to \in CfnTimeouts :
          /\ now' = t
          /\ cw' = [IdleWait EXCEPT !.fn = "delete", !.pc = "while", !.start_time = t,
                                    !.timeout = to]
    /\ UNCHANGED stack
    /\ CfnFrame

\* the describes of a wait are counted when the wait is called on its own,
\* not when create_stack or delete_stack calls it
Uncounted == -1

\* the wait's record after a describe that answered o
Described(o) ==
    [cw EXCEPT !.describes = IF @ = Uncounted THEN @ ELSE @ + 1, !.last = o,
               !.status = IF o \in StackStatuses THEN o ELSE @,
               !.fail_seen = @ \/ o \in CreateFailures,
               !.calls = @ \cup {"describe_stacks"}]

\* print_stack_events(region, stack_name, limit=10): describe_stack_events,
\* its own exceptions caught
WithStackEvents(rec) == [rec EXCEPT !.calls = @ \cup {"describe_stack_events"}]

\* mutant: the timeout cleans up after itself with cfn.delete_stack
WaitCreateWhile_Cleanup ==
    /\ cw.fn = "create" /\ cw.pc = "while"
    /\ IF now - cw.start_time < cw.timeout
          THEN cw' = [cw EXCEPT !.pc = "describe"] /\ UNCHANGED stack
          ELSE /\ WaitReturn("timeout", "False", [cw EXCEPT !.calls = @ \cup {"delete_stack"}])
               /\ stack' = IF stack \in {NoStack, "DELETE_COMPLETE"}
                              THEN stack ELSE "DELETE_IN_PROGRESS"
    /\ UNCHANGED now
    /\ CfnFrame

\* while time.time() - start_time < timeout: ... else print_error(Timeout); return False
WaitCreateWhile ==
    /\ cw.fn = "create" /\ cw.pc = "while"
    /\ IF now - cw.start_time < cw.timeout
          THEN cw' = [cw EXCEPT !.pc = "describe"]
          ELSE WaitReturn("timeout", "False", cw)
    /\ UNCHANGED <<now, stack>>
    /\ CfnFrame

\* mutant: success is any status that ends in COMPLETE
WaitCreateDescribe_AnyComplete ==
    /\ cw.fn = "create" /\ cw.pc = "describe"
    /\ \E d \in 0..MaxCallSecs, o \in DescribeStackOutcomes :
          /\ now' = now + d
          /\ CASE o \in {"CREATE_COMPLETE", "ROLLBACK_COMPLETE"} ->
                      WaitReturn("complete", "True", Described(o))
               [] o \in {"CREATE_FAILED", "ROLLBACK_FAILED"} ->
                      WaitReturn("failed", "False", WithStackEvents(Described(o)))
               [] o \in StackStatuses \ ({"CREATE_COMPLETE"} \cup CreateFailures) ->
                      cw' = [Described(o) EXCEPT !.pc = "sleep"]
               [] OTHER -> WaitReturn("error", "False", Described(o))
    /\ UNCHANGED stack
    /\ CfnFrame

\* mutant: an exception of the describe is logged and the loop goes on
WaitCreateDescribe_Retry ==
    /\ cw.fn = "create" /\ cw.pc = "describe"
    /\ \E d \in 0..MaxCallSecs, o \in DescribeStackOutcomes :
          /\ now' = now + d
          /\ CASE o = "CREATE_COMPLETE" -> WaitReturn("complete", "True", Described(o))
               [] o \in CreateFailures ->
                      WaitReturn("failed", "False", WithStackEvents(Described(o)))
               [] OTHER -> cw' = [Described(o) EXCEPT !.pc = "sleep"]
    /\ UNCHANGED stack
    /\ CfnFrame

\* response = cfn.describe_stacks(StackName=stack_name); status = ...['StackStatus']
\* if status == 'CREATE_COMPLETE': return True
\* elif status in [...]: print_stack_events(...); return False
\* except Exception: print_error(...); return False
WaitCreateDescribe ==
    /\ cw.fn = "create" /\ cw.pc = "describe"
    /\ \E d \in 0..MaxCallSecs, o \in DescribeStackOutcomes :
          /\ now' = now + d
          /\ CASE o = "CREATE_COMPLETE" -> WaitReturn("complete", "True", Described(o))
               [] o \in CreateFailures ->
                      WaitReturn("failed", "False", WithStackEvents(Described(o)))
               [] o \in StackStatuses \ ({"CREATE_COMPLETE"} \cup CreateFailures) ->
                      cw' = [Described(o) EXCEPT !.pc = "sleep"]
               [] OTHER -> WaitReturn("error", "False", Described(o))
    /\ UNCHANGED stack
    /\ CfnFrame

\* mutant: the loop sleeps one second between two describes
WaitSleep_Short ==
    /\ cw.pc = "sleep"
    /\ \E slack \in 0..MaxSlack :
          /\ now' = now + 1 + slack
          /\ cw' = [cw EXCEPT !.pc = "while"]
    /\ UNCHANGED stack
    /\ CfnFrame

\* time.sleep(10)
WaitSleep ==
    /\ cw.pc = "sleep"
    /\ \E slack \in 0..MaxSlack :
          /\ now' = now + SleepSecs + slack
          /\ cw' = [cw EXCEPT !.pc = "while"]
    /\ UNCHANGED stack
    /\ CfnFrame

\* while time.time() - start_time < timeout: ... else print_error(Timeout); return False
WaitDeleteWhile ==
    /\ cw.fn = "delete" /\ cw.pc = "while"
    /\ IF now - cw.start_time < cw.timeout
          THEN cw' = [cw EXCEPT !.pc = "describe"]
          ELSE WaitReturn("timeout", "False", cw)
    /\ UNCHANGED <<now, stack>>
    /\ CfnFrame

\* mutant: the status DELETE_COMPLETE is taken as the end of the deletion
WaitDeleteDescribe_StatusSuccess ==
    /\ cw.fn = "delete" /\ cw.pc = "describe"
    /\ \E d \in 0..MaxCallSecs, o \in DescribeStackOutcomes :
          /\ now' = now + d
          /\ CASE o = "DELETE_FAILED" ->
                      WaitReturn("failed", "False", WithStackEvents(Described(o)))
               [] o = "DELETE_COMPLETE" -> WaitReturn("deleted", "True", Described(o))
               [] o \in StackStatuses \ {"DELETE_FAILED", "DELETE_COMPLETE"} ->
                      cw' = [Described(o) EXCEPT !.pc = "sleep"]
               [] o = DoesNotExist -> WaitReturn("deleted", "True", Described(o))
               [] o = "ClientError" -> WaitReturn("error", "False", Described(o))
               [] OTHER -> WaitReturn("raised", "raise", Described(o))
    /\ UNCHANGED stack
    /\ CfnFrame

\* response = cfn.describe_stacks(StackName=stack_name); status = ...['StackStatus']
\* if status == 'DELETE_FAILED': print_stack_events(...); return False
\* except cfn.exceptions.ClientError as e:
\*     if 'does not exist' in str(e): return True  else: return False
\* (an exception that is no ClientError is not caught: the call raises)
WaitDeleteDescribe ==
    /\ cw.fn = "delete" /\ cw.pc = "describe"
    /\ \E d \in 0..MaxCallSecs, o \in DescribeStackOutcomes :
          /\ now' = now + d
          /\ CASE o = "DELETE_FAILED" ->
                      WaitReturn("failed", "False", WithStackEvents(Described(o)))
               [] o \in StackStatuses \ {"DELETE_FAILED"} ->
                      cw' = [Described(o) EXCEPT !.pc = "sleep"]
               [] o = DoesNotExist -> WaitReturn("deleted", "True", Described(o))
               [] o = "ClientError" -> WaitReturn("error", "False", Described(o))
               [] OTHER -> WaitReturn("raised", "raise", Described(o))
    /\ UNCHANGED stack
    /\ CfnFrame

(***************************************************************************)
(* create_stack(region, stack_name, parameters, wait) and                  *)
(* delete_stack(region, stack_name, wait).                                 *)
(***************************************************************************)
IdleStk == [fn |-> "-", pc |-> "idle", wait |-> FALSE,
            wait_ret |-> "-", wait_exit |-> "-", ret |-> "-", exit |-> "-"]

\* what create_stack and delete_stack leave alone
StkFrame == UNCHANGED <<keyVars, pwVars, dk, inst, cmd>>

\* response['StackId']
StackId == "stack_id"

StkReturn(x, v, rec) ==
    sk' = [rec EXCEPT !.pc = "returned", !.exit = x, !.ret = v]

\* entry: cfn = get_cloudformation_client(region); template = load_template();
\* cfn_parameters = [...] (the template ships with the package)
CreateStackCall ==
    /\ sk.pc = "idle"
    /\ \E w \in BOOLEAN :
          sk' = [IdleStk EXCEPT !.fn = "create_stack", !.pc = "request", !.wait = w]
    /\ UNCHANGED <<now, stack, cw>>
    /\ StkFrame

\* response = cfn.create_stack(StackName=stack_name, ...); stack_id = response['StackId']
\* if wait: ...  return stack_id
\* except Exception: print_error(...); return None
\* (the provider accepts the name only when no stack holds it)
CreateStackRequest ==
    /\ sk.fn = "create_stack" /\ sk.pc = "request"
    /\ \/ /\ stack \in {NoStack, "DELETE_COMPLETE"}
          /\ stack' = "CREATE_IN_PROGRESS"
          /\ IF sk.wait THEN sk' = [sk EXCEPT !.pc = "wait"]
                        ELSE StkReturn("done", StackId, sk)
       \/ /\ UNCHANGED stack
          /\ StkReturn("rejected", None, sk)
    /\ UNCHANGED <<now, cw>>
    /\ StkFrame

\* wait_for_stack_creation(region, stack_name): entry, timeout = 600
CreateStackWait ==
    /\ sk.fn = "create_stack" /\ sk.pc = "wait" /\ cw.pc = "idle"
    /\ \E t \in EntryTimes :
          /\ now' = t
          /\ cw' = [IdleWait EXCEPT !.fn = "create", !.pc = "while", !.start_time = t,
                                    !.timeout = DefaultTimeout,
                                    !.describes = Uncounted]
    /\ sk' = [sk EXCEPT !.pc = "waiting"]
    /\ UNCHANGED stack
    /\ StkFrame

\* wait_for_stack_creation(region, stack_name) has returned: its value is
\* dropped;  return stack_id
CreateStackReturn ==
    /\ sk.fn = "create_stack" /\ sk.pc = "waiting" /\ cw.pc = "returned"
    /\ StkReturn("done", StackId, [sk EXCEPT !.wait_ret = cw.ret, !.wait_exit = cw.exit])
    /\ cw' = IdleWait
    /\ UNCHANGED <<now, stack>>
    /\ StkFrame

\* entry: cfn = get_cloudformation_client(region)
DeleteStackCall ==
    /\ sk.pc = "idle"
    /\ \E w \in BOOLEAN :
          sk' = [IdleStk EXCEPT !.fn = "delete_stack", !.pc = "request", !.wait = w]
    /\ UNCHANGED <<now, stack, cw>>
    /\ StkFrame

\* cfn.delete_stack(StackName=stack_name);  if wait: ...  return True
\* except Exception: print_error(...); return False
\* (the provider starts the deletion of a stack that is there, and accepts
\* the request for one that is not)
DeleteStackRequest ==
    /\ sk.fn = "delete_stack" /\ sk.pc = "request"
    /\ \/ /\ stack' = IF stack \in {NoStack, "DELETE_COMPLETE"}
                           THEN stack ELSE "DELETE_IN_PROGRESS"
          /\ IF sk.wait THEN sk' = [sk EXCEPT !.pc = "wait"]
                        ELSE StkReturn("done", "True", sk)
       \/ /\ UNCHANGED stack
          /\ StkReturn("rejected", "False", sk)
    /\ UNCHANGED <<now, cw>>
    /\ StkFrame

\* wait_for_stack_deletion(region, stack_name): entry, timeout = 600
DeleteStackWait ==
    /\ sk.fn = "delete_stack" /\ sk.pc = "wait" /\ cw.pc = "idle"
    /\ \E t \in EntryTimes :
          /\ now' = t
          /\ cw' = [IdleWait EXCEPT !.fn = "delete", !.pc = "while", !.start_time = t,
                                    !.timeout = DefaultTimeout,
                                    !.describes = Uncounted]
    /\ sk' = [sk EXCEPT !.pc = "waiting"]
    /\ UNCHANGED stack
    /\ StkFrame

\* wait_for_stack_deletion(region, stack_name) has returned: its value is
\* dropped;  return True
\* (an exception it let through is caught:  except Exception: return False)
DeleteStackReturn ==
    /\ sk.fn = "delete_stack" /\ sk.pc = "waiting" /\ cw.pc = "returned"
    /\ LET rec == [sk EXCEPT !.wait_ret = cw.ret, !.wait_exit = cw.exit]
       IN  IF cw.ret = "raise" THEN StkReturn("wait_raised", "False", rec)
           ELSE StkReturn("done", "True", rec)
    /\ cw' = IdleWait
    /\ UNCHANGED <<now, stack>>
    /\ StkFrame

(***************************************************************************)
(* delete_key_pair(region, key_name).                                      *)
(***************************************************************************)
IdleDkp == [pc |-> "idle", success |-> TRUE, log |-> <<>>,
            file0 |-> NoFile, aws0 |-> 0, ret |-> "-", calls |-> 0]

\* what delete_key_pair leaves alone
DkpFrame == UNCHANGED <<next_key, kp, now, pwVars, cfnVars, sk, inst, cmd>>

DkpGoto(pc, e, ok) ==
    dk' = [dk EXCEPT !.pc = pc, !.log = Append(@, e), !.success = @ /\ ok]

\* return success
DkpReturn(e, ok) ==
    dk' = [dk EXCEPT !.pc = "returned", !.log = Append(@, e), !.success = @ /\ ok,
                     !.ret = IF dk.success /\ ok THEN "True" ELSE "False"]

\* entry: ec2 = get_ec2_client(region); success = True
DeleteKeyPairCall ==
    /\ dk.pc \in {"idle", "returned"}
    /\ dk.calls < MaxDkpCalls
    /\ dk' = [IdleDkp EXCEPT !.pc = "delete", !.file0 = key_file, !.aws0 = aws_key,
                             !.calls = dk.calls + 1]
    /\ UNCHANGED <<aws_key, key_file>>
    /\ DkpFrame

\* mutant: a failed deletion at the provider ends the call
DkpDeleteRemote_Abort ==
    /\ dk.pc = "delete"
    /\ \/ aws_key' = 0 /\ DkpGoto("exists", "delete:ok", TRUE)
       \/ UNCHANGED aws_key /\ DkpReturn("delete:Exception", FALSE)
    /\ UNCHANGED key_file
    /\ DkpFrame

\* try: ec2.delete_key_pair(KeyName=key_name)
\* except Exception: print_error(...); success = False
\* (the provider accepts the deletion of a name it does not hold)
DkpDeleteRemote ==
    /\ dk.pc = "delete"
    /\ \/ aws_key' = 0 /\ DkpGoto("exists", "delete:ok", TRUE)
       \/ UNCHANGED aws_key /\ DkpGoto("exists", "delete:Exception", FALSE)
    /\ UNCHANGED key_file
    /\ DkpFrame

\* key_path = get_key_path(key_name);  if key_path.exists(): ...  return success
\* (the keys directory is there or can be made: its mkdir has exist_ok=True)
DkpExists ==
    /\ dk.pc = "exists"
    /\ IF key_file # NoFile
          THEN DkpGoto("unlink", "exists:True", TRUE)
          ELSE DkpReturn("exists:False", TRUE)
    /\ UNCHANGED <<aws_key, key_file>>
    /\ DkpFrame

\* try: key_path.unlink()
\* except Exception: print_error(...); success = False
\* return success
DkpUnlink ==
    /\ dk.pc = "unlink"
    /\ \/ key_file' = NoFile /\ DkpReturn("unlink:ok", TRUE)
       \/ UNCHANGED key_file /\ DkpReturn("unlink:OSError", FALSE)
    /\ UNCHANGED aws_key
    /\ DkpFrame

(***************************************************************************)
(* The provider's instances, get_instance_info and list_managed_instances  *)
(* (core/ec2.py).                                                          *)
(***************************************************************************)
Instances == {"i-1", "i-2"}
InstanceStates == {"pending", "running", "stopping", "stopped", "shutting-down",
                   "terminated"}
\* {'Name': 'tag:ManagedBy', 'Values': ['winaws']}
ManagedBy == "winaws"
\* tags.get('ManagedBy', 'N/A')
NotAvailable == "N/A"
\* for test_region in ['us-east-1', 'us-west-2', 'eu-west-1', 'ap-southeast-1']
ProbeRegions == <<"us-east-1", "us-west-2", "eu-west-1", "ap-southeast-1">>
\* a region the probing does not try
OtherRegion == "sa-east-1"
\* the region of --region
GivenRegion == "us-west-2"
AllRegions == {ProbeRegions[i] : i \in 1..Len(ProbeRegions)} \cup {OtherRegion}

InstanceRecs == [region : AllRegions, state : InstanceStates,
                 managed_by : {ManagedBy, NotAvailable}]
\* no instance is involved
NoInstances == [i \in Instances |->
                  [region |-> OtherRegion, state |-> "terminated",
                   managed_by |-> NotAvailable]]

\* get_instance_info returned None
NoInfo == [region |-> "-", state |-> "-", managed_by |-> "-"]

\* get_instance_info(region, instance_id): the instance as describe_instances
\* of its region reports it; None when the response has no reservation, and
\* after any exception (the ClientError for an id the region does not know,
\* or any other failure of the call)
get_instance_info(region, instance_id) ==
    {NoInfo} \cup (IF inst[instance_id].region = region THEN {inst[instance_id]} ELSE {})

\* {'Name': 'instance-state-name', 'Values': ['pending', 'running', 'stopping', 'stopped']}
ListedStates == {"pending", "running", "stopping", "stopped"}

\* ec2.describe_instances(Filters=filters) in region: the provider returns
\* the instances of the region that match every filter
describe_instances(region, tag, states) ==
    {i \in Instances : /\ inst[i].region = region
                       /\ inst[i].managed_by = tag
                       /\ inst[i].state \in states}

\* mutant: the listing filters by the tag alone
list_managed_instances_AnyState(region) ==
    {describe_instances(region, ManagedBy, InstanceStates), {}}

\* list_managed_instances(region): the filtered instances, or [] after any
\* exception
list_managed_instances(region) ==
    {describe_instances(region, ManagedBy, ListedStates), {}}

(***************************************************************************)
(* The commands start, stop, status, terminate and password                *)
(* (commands/*.py): one process runs one command.                          *)
(***************************************************************************)
NoCmd == [name |-> "-", pc |-> "exited", instance_id |-> None, region |-> None,
          yes |-> FALSE, all_regions |-> FALSE, regions |-> <<>>, probes |-> <<>>, info |-> NoInfo, confirmed |-> FALSE,
          listed |-> {}, exists |-> "-", success |-> "-", wait_exit |-> "-",
          key_ret |-> "-", password |-> "-", skip_password |-> FALSE,
          key_path |-> "-", key_created |-> FALSE, stack_id |-> "-", response |-> "-", outputs |-> {},
          calls |-> {}, msgs |-> {}, exit |-> "-"]

\* max_wait=300 in the call of get_instance_password
CommandMaxWait == 300

\* the process as it starts:  winaws <name> [instance_id] [--region r] [--yes]
Argv(name, instance_id, region, yes) ==
    [NoCmd EXCEPT !.name = name, !.pc = "select", !.instance_id = instance_id,
                  !.region = region, !.yes = yes]

\* what a command step leaves alone, the variables named apart
CmdFrame == UNCHANGED <<next_key, kp, pwVars>>

\* raise typer.Exit(code), or the end of the command function (code 0)
CmdExit(code, msg, rec) ==
    cmd' = [rec EXCEPT !.pc = "exited", !.exit = code, !.msgs = @ \cup msg]

\* the step after the instance was found
TailPc(name) ==
    CASE name = "start" -> "start_instance"
      [] name = "stop" -> "stop_instance"
      [] name = "status" -> "show"
      [] name = "terminate" -> "confirm"
      [] name = "password" -> "key_path"

\* the instances the command offers for selection
Selectable(name, instances) ==
    CASE name = "start" -> {i \in instances : inst[i].state \in {"stopped", "stopping"}}
      [] name = "stop" -> {i \in instances : inst[i].state \in {"running", "pending"}}
      [] OTHER -> instances

\* if not instance_id:
\*     if not region: raise typer.Exit(1)
\*     instances = list_managed_instances(region);  if not instances: Exit(1)
\*     (start, stop: filter by state; if none: Exit(1))
\*     instance_id = select_instance(...);  if not instance_id: Exit(1)
CmdSelect ==
    /\ cmd.pc = "select"
    /\ IF cmd.instance_id # None
          THEN cmd' = [cmd EXCEPT !.pc = IF cmd.region = None THEN "probe" ELSE "info"]
          ELSE IF cmd.region = None
                  THEN CmdExit("1", {"region_required"}, cmd)
                  ELSE \E instances \in list_managed_instances(cmd.region) :
                          LET rec == [cmd EXCEPT !.listed = instances]
                              offered == Selectable(cmd.name, instances)
                          IN  IF offered = {}
                                 THEN CmdExit("1", {"none_found"}, rec)
                                 ELSE \/ CmdExit("1", {"none_selected"}, rec)
                                      \/ \E i \in offered :
                                            cmd' = [rec EXCEPT !.instance_id = i,
                                                               !.pc = "info"]
    /\ UNCHANGED <<aws_key, key_file, now, stack, cw, sk, dk, inst>>
    /\ CmdFrame

\* mutant: the probing goes on after the instance was found
CmdProbe_NoBreak ==
    /\ cmd.pc = "probe"
    /\ LET test_region == ProbeRegions[Len(cmd.probes) + 1]
           last == Len(cmd.probes) + 1 = Len(ProbeRegions)
       IN  \E info \in get_instance_info(test_region, cmd.instance_id) :
              LET rec == [cmd EXCEPT !.probes = Append(@, test_region),
                                     !.region = IF info # NoInfo THEN test_region ELSE @]
              IN  IF ~last THEN cmd' = rec
                  ELSE IF rec.region # None THEN cmd' = [rec EXCEPT !.pc = "info"]
                  ELSE CmdExit("1", {"no_region"}, rec)
    /\ UNCHANGED <<aws_key, key_file, now, stack, cw, sk, dk, inst>>
    /\ CmdFrame

\* if not region:
\*     for test_region in ['us-east-1', 'us-west-2', 'eu-west-1', 'ap-southeast-1']:
\*         info = get_instance_info(test_region, instance_id)
\*         if info: region = test_region; break
\*     if not region: print_error("Could not determine instance region..."); Exit(1)
\* (one step is one turn of the loop)
CmdProbe ==
    /\ cmd.pc = "probe"
    /\ LET test_region == ProbeRegions[Len(cmd.probes) + 1]
           last == Len(cmd.probes) + 1 = Len(ProbeRegions)
       IN  \E info \in get_instance_info(test_region, cmd.instance_id) :
              LET rec == [cmd EXCEPT !.probes = Append(@, test_region)]
              IN  IF info # NoInfo
                     THEN cmd' = [rec EXCEPT !.region = test_region, !.pc = "info"]
                     ELSE IF last THEN CmdExit("1", {"no_region"}, rec)
                                  ELSE cmd' = rec
    /\ UNCHANGED <<aws_key, key_file, now, stack, cw, sk, dk, inst>>
    /\ CmdFrame

\* info = get_instance_info(region, instance_id)
\* if not info: print_error("Instance ... not found in region ..."); Exit(1)
CmdInfo ==
    /\ cmd.pc = "info"
    /\ \E info \in get_instance_info(cmd.region, cmd.instance_id) :
          IF info = NoInfo
             THEN CmdExit("1", {"not_found"}, cmd)
             ELSE cmd' = [cmd EXCEPT !.info = info, !.pc = TailPc(cmd.name)]
    /\ UNCHANGED <<aws_key, key_file, now, stack, cw, sk, dk, inst>>
    /\ CmdFrame

\* mutant: start asks the provider whatever the state
StartInstance_Always ==
    /\ cmd.name = "start" /\ cmd.pc = "start_instance"
    /\ LET rec == [cmd EXCEPT !.calls = @ \cup {"start_instances"}]
       IN  \/ /\ inst' = [inst EXCEPT ![cmd.instance_id].state = "pending"]
              /\ CmdExit("0", {"starting"}, rec)
           \/ /\ UNCHANGED inst
              /\ CmdExit("1", {}, rec)
    /\ UNCHANGED <<aws_key, key_file, now, stack, cw, sk, dk>>
    /\ CmdFrame

\* current_state = info['state']
\* if current_state == 'running': print_success("... already running"); return
\* if current_state not in ['stopped', 'stopping']: print_error(...); Exit(1)
\* success = start_instance(region, instance_id)   (ec2.start_instances; any
\*     exception caught: False);  if not success: Exit(1)
StartInstance ==
    /\ cmd.name = "start" /\ cmd.pc = "start_instance"
    /\ IF cmd.info.state = "running"
          THEN CmdExit("0", {"already"}, cmd) /\ UNCHANGED inst
          ELSE IF cmd.info.state \notin {"stopped", "stopping"}
                  THEN CmdExit("1", {"cannot"}, cmd) /\ UNCHANGED inst
                  ELSE LET rec == [cmd EXCEPT !.calls = @ \cup {"start_instances"}]
                       IN  \/ /\ inst[cmd.instance_id].state = "stopped"
                              /\ inst' = [inst EXCEPT ![cmd.instance_id].state = "pending"]
                              /\ CmdExit("0", {"starting"}, rec)
                           \/ /\ UNCHANGED inst
                              /\ CmdExit("1", {}, rec)
    /\ UNCHANGED <<aws_key, key_file, now, stack, cw, sk, dk>>
    /\ CmdFrame

\* mutant: stop refuses nothing but an instance already stopped
StopInstance_AnyState ==
    /\ cmd.name = "stop" /\ cmd.pc = "stop_instance"
    /\ IF cmd.info.state = "stopped"
          THEN CmdExit("0", {"already"}, cmd) /\ UNCHANGED inst
          ELSE LET rec == [cmd EXCEPT !.calls = @ \cup {"stop_instances"}]
               IN  \/ /\ inst[cmd.instance_id].state \in {"running", "pending"}
                      /\ inst' = [inst EXCEPT ![cmd.instance_id].state = "stopping"]
                      /\ CmdExit("0", {"stopping"}, rec)
                   \/ /\ UNCHANGED inst
                      /\ CmdExit("1", {}, rec)
    /\ UNCHANGED <<aws_key, key_file, now, stack, cw, sk, dk>>
    /\ CmdFrame

\* current_state = info['state']
\* if current_state == 'stopped': print_success("... already stopped"); return
\* if current_state not in ['running', 'pending']: print_error(...); Exit(1)
\* success = stop_instance(region, instance_id)   (ec2.stop_instances; any
\*     exception caught: False);  if not success: Exit(1)
StopInstance ==
    /\ cmd.name = "stop" /\ cmd.pc = "stop_instance"
    /\ IF cmd.info.state = "stopped"
          THEN CmdExit("0", {"already"}, cmd) /\ UNCHANGED inst
          ELSE IF cmd.info.state \notin {"running", "pending"}
                  THEN CmdExit("1", {"cannot"}, cmd) /\ UNCHANGED inst
                  ELSE LET rec == [cmd EXCEPT !.calls = @ \cup {"stop_instances"}]
                       IN  \/ /\ inst[cmd.instance_id].state \in {"running", "pending"}
                              /\ inst' = [inst EXCEPT ![cmd.instance_id].state = "stopping"]
                              /\ CmdExit("0", {"stopping"}, rec)
                           \/ /\ UNCHANGED inst
                              /\ CmdExit("1", {}, rec)
    /\ UNCHANGED <<aws_key, key_file, now, stack, cw, sk, dk>>
    /\ CmdFrame

\* status: state = info['state'] ... print_summary(...), console.print(...)
StatusShow ==
    /\ cmd.name = "status" /\ cmd.pc = "show"
    /\ CmdExit("0", {"summary"}, cmd)
    /\ UNCHANGED <<aws_key, key_file, now, stack, cw, sk, dk, inst>>
    /\ CmdFrame

\* mutant: a declined confirmation is only reported
TerminateConfirm_Ignored ==
    /\ cmd.name = "terminate" /\ cmd.pc = "confirm"
    /\ IF cmd.yes
          THEN cmd' = [cmd EXCEPT !.pc = "stack_exists"]
          ELSE \E answer \in BOOLEAN :
                  cmd' = [cmd EXCEPT !.confirmed = answer, !.pc = "stack_exists",
                                     !.msgs = IF answer THEN @ ELSE @ \cup {"cancelled"}]
    /\ UNCHANGED <<aws_key, key_file, now, stack, cw, sk, dk, inst>>
    /\ CmdFrame

\* if not yes: ... if not confirm_action("Are you sure ...", default=False):
\*     print_error("Termination cancelled"); raise typer.Exit(1)
\* (confirm_action answers False when the prompt is aborted)
TerminateConfirm ==
    /\ cmd.name = "terminate" /\ cmd.pc = "confirm"
    /\ IF cmd.yes
          THEN cmd' = [cmd EXCEPT !.pc = "stack_exists"]
          ELSE \E answer \in BOOLEAN :
                  IF answer
                     THEN cmd' = [cmd EXCEPT !.confirmed = TRUE, !.pc = "stack_exists"]
                     ELSE CmdExit("1", {"cancelled"}, cmd)
    /\ UNCHANGED <<aws_key, key_file, now, stack, cw, sk, dk, inst>>
    /\ CmdFrame

\* if stack_exists(region, stack_name): ... else: print_warning("... not found ...")
\* stack_exists: try: cfn.describe_stacks(...); return True
\*               except cfn.exceptions.ClientError: return False
\* (an exception that is no ClientError is not caught, here or in terminate)
TerminateStackExists ==
    /\ cmd.name = "terminate" /\ cmd.pc = "stack_exists"
    /\ \E o \in DescribeStackOutcomes :
          CASE o \in StackStatuses ->
                  cmd' = [cmd EXCEPT !.exists = "True", !.pc = "delete_stack"]
            [] o \in {DoesNotExist, "ClientError"} ->
                  cmd' = [cmd EXCEPT !.exists = "False", !.pc = "delete_key_pair",
                                     !.msgs = @ \cup {"stack_not_found"}]
            [] OTHER -> CmdExit("raise", {}, [cmd EXCEPT !.exists = "raise"])
    /\ UNCHANGED <<aws_key, key_file, now, stack, cw, sk, dk, inst>>
    /\ CmdFrame

\* success = delete_stack(region, stack_name, wait=True): entry
TerminateDeleteStack ==
    /\ cmd.name = "terminate" /\ cmd.pc = "delete_stack" /\ sk.pc = "idle"
    /\ sk' = [IdleStk EXCEPT !.fn = "delete_stack", !.pc = "request", !.wait = TRUE]
    /\ cmd' = [cmd EXCEPT !.pc = "deleting", !.calls = @ \cup {"delete_stack"}]
    /\ UNCHANGED <<aws_key, key_file, now, stack, cw, dk, inst>>
    /\ CmdFrame

\* delete_stack has returned
\* if not success: print_error("Failed to delete CloudFormation stack")
\*     print_warning("You may need to manually cleanup resources ..."); Exit(1)
TerminateDeleteStackReturn ==
    /\ cmd.name = "terminate" /\ cmd.pc = "deleting" /\ sk.pc = "returned"
    /\ LET rec == [cmd EXCEPT !.success = sk.ret,
                              !.wait_exit = IF sk.exit = "rejected" THEN "rejected"
                                            ELSE sk.wait_exit]
       IN  IF sk.ret = "True"
              THEN cmd' = [rec EXCEPT !.pc = "delete_key_pair"]
              ELSE CmdExit("1", {"cleanup_warning"}, rec)
    /\ sk' = IdleStk
    /\ UNCHANGED <<aws_key, key_file, now, stack, cw, dk, inst>>
    /\ CmdFrame

\* delete_key_pair(region, key_name): entry
TerminateDeleteKeyPair ==
    /\ cmd.name = "terminate" /\ cmd.pc = "delete_key_pair" /\ dk.pc = "idle"
    /\ dk' = [IdleDkp EXCEPT !.pc = "delete", !.file0 = key_file, !.aws0 = aws_key,
                             !.calls = 1]
    /\ cmd' = [cmd EXCEPT !.pc = "deleting_key", !.calls = @ \cup {"delete_key_pair"}]
    /\ UNCHANGED <<aws_key, key_file, now, stack, cw, sk, inst>>
    /\ CmdFrame

\* delete_key_pair has returned, its value is dropped
\* print_success("Instance ... terminated successfully!")
TerminateDone ==
    /\ cmd.name = "terminate" /\ cmd.pc = "deleting_key" /\ dk.pc = "returned"
    /\ CmdExit("0", {"terminated"}, [cmd EXCEPT !.key_ret = dk.ret])
    /\ dk' = IdleDkp
    /\ UNCHANGED <<aws_key, key_file, now, stack, cw, sk, inst>>
    /\ CmdFrame

\* key_path = get_key_path(f"winaws-{instance_name}")
\* if not key_path.exists(): key_path = get_key_path(key_name)
\*     if not key_path.exists(): print_error("Private key not found ..."); Exit(1)
\* (the instance carries the key name the tool gave it: both paths are key_path)
PasswordKeyPath ==
    /\ cmd.name = "password" /\ cmd.pc = "key_path"
    /\ IF key_file # NoFile
          THEN cmd' = [cmd EXCEPT !.pc = "get_password"]
          ELSE CmdExit("1", {"key_not_found"}, cmd)
    /\ UNCHANGED <<aws_key, key_file, now, stack, cw, sk, dk, inst>>
    /\ CmdFrame

\* password = get_instance_password(region=region, instance_id=instance_id,
\*                private_key_path=str(key_path), max_wait=300): entry
PasswordGetPassword ==
    /\ cmd.name = "password" /\ cmd.pc = "get_password" /\ pw.pc = "idle"
    /\ \E t \in EntryTimes :
          /\ now' = t
          /\ pw' = [IdlePwRec EXCEPT !.pc = "while", !.start_time = t,
                                     !.max_wait = CommandMaxWait,
                                     !.poll_interval = DefaultPollInterval, !.calls = 1]
    /\ cmd' = [cmd EXCEPT !.pc = "polling"]
    /\ UNCHANGED <<aws_key, key_file, next_key, kp, pw_seen, stack, cw, sk, dk, inst>>

\* get_instance_password has returned
\* if password: print_success("Password retrieved successfully!") ...
\* else: print_error("Failed to retrieve password"); raise typer.Exit(1)
PasswordReport ==
    /\ cmd.name = "password" /\ cmd.pc = "polling" /\ pw.pc = "returned"
    /\ LET rec == [cmd EXCEPT !.password = pw.ret]
       IN  IF pw.ret \notin {None, ""}
              THEN CmdExit("0", {"password"}, rec)
              ELSE CmdExit("1", {"no_password"}, rec)
    /\ pw' = IdlePwRec
    /\ UNCHANGED <<aws_key, key_file, next_key, kp, pw_seen, now, stack, cw, sk, dk, inst>>

\* the process as it starts:  winaws list [--region r] [--all]
ListArgv(region, all_regions) ==
    [NoCmd EXCEPT !.name = "list", !.pc = "regions", !.region = region,
                  !.all_regions = all_regions]

\* get_available_regions(): sorted(regions) of ec2.describe_regions
SortedRegions == <<"ap-southeast-1", "eu-west-1", "sa-east-1", "us-east-1", "us-west-2">>

\* if all_regions: regions = get_available_regions()
\* elif region: regions = [region]
\* else: print_error("Please specify --region or use --all ..."); Exit(1)
\* (get_available_regions has no try: what describe_regions raises leaves
\* the command)
ListRegions ==
    /\ cmd.name = "list" /\ cmd.pc = "regions"
    /\ IF cmd.all_regions
          THEN \/ cmd' = [cmd EXCEPT !.regions = SortedRegions, !.pc = "listing"]
               \/ CmdExit("raise", {}, cmd)
          ELSE IF cmd.region # None
                  THEN cmd' = [cmd EXCEPT !.regions = <<cmd.region>>, !.pc = "listing"]
                  ELSE CmdExit("1", {"region_or_all"}, cmd)
    /\ UNCHANGED <<aws_key, key_file, now, stack, cw, sk, dk, inst>>
    /\ CmdFrame

\* for reg in regions: instances = list_managed_instances(reg)
\*     for inst in instances: inst['region'] = reg; all_instances.append(inst)
\* (one step is one turn of the outer loop)
ListRegion ==
    /\ cmd.name = "list" /\ cmd.pc = "listing" /\ cmd.regions # <<>>
    /\ \E instances \in list_managed_instances(Head(cmd.regions)) :
          cmd' = [cmd EXCEPT !.listed = @ \cup instances, !.regions = Tail(@)]
    /\ UNCHANGED <<aws_key, key_file, now, stack, cw, sk, dk, inst>>
    /\ CmdFrame

\* if not all_instances: console.print("No managed instances found"); return
\* table = create_table(...); ... console.print(table)
ListShow ==
    /\ cmd.name = "list" /\ cmd.pc = "listing" /\ cmd.regions = <<>>
    /\ CmdExit("0", IF cmd.listed = {} THEN {"none_found"} ELSE {"table"}, cmd)
    /\ UNCHANGED <<aws_key, key_file, now, stack, cw, sk, dk, inst>>
    /\ CmdFrame

(***************************************************************************)
(* The create command (commands/create.py) and get_stack_outputs.          *)
(***************************************************************************)
\* the output keys the command reads
OutputKeys == {"InstanceId", "PublicIP"}
\* Outputs of a described stack, as (OutputKey, OutputValue) pairs: each key
\* absent, present with an empty value, or present with a value
StackOutputs ==
    {o \in SUBSET (OutputKeys \X {"", "value"}) :
        \A p, q \in o : p[1] = q[1] => p = q}

\* stack.get('Outputs', []) of the describe_stacks response: the provider
\* reports outputs for a stack whose creation has completed
DescribedOutputs(response) ==
    IF response = "CREATE_COMPLETE" THEN StackOutputs ELSE {{}}

\* what the describe_stacks call did: answered, or the error it raised
Answered(response) ==
    IF response \in {DoesNotExist, "ClientError", "Exception"} THEN response ELSE "ok"

\* get_stack_outputs(region, stack_name), given what describe_stacks did:
\* { output['OutputKey']: output['OutputValue'] for output in outputs }
\* except Exception: print_error(...); return {}
get_stack_outputs(response, outputs) ==
    IF response \in {DoesNotExist, "ClientError", "Exception"} THEN {} ELSE outputs

\* outputs.get(key)
OutputGet(outputs, key) ==
    IF \E p \in outputs : p[1] = key
       THEN (CHOOSE p \in outputs : p[1] = key)[2]
       ELSE None

\* the process as it starts:  winaws create [--region ... --type ... --name ...
\* --ami ...] [--skip-password]; region stands for the four options, given
\* together or not at all
CreateArgv(region, skip_password) ==
    [NoCmd EXCEPT !.name = "create", !.pc = "credentials", !.region = region,
                  !.skip_password = skip_password]

\* if not validate_aws_credentials(): print_error(...); raise typer.Exit(1)
CreateCredentials ==
    /\ cmd.name = "create" /\ cmd.pc = "credentials"
    /\ \/ cmd' = [cmd EXCEPT !.pc = "config"]
       \/ CmdExit("1", {"no_credentials"}, cmd)
    /\ UNCHANGED <<aws_key, key_file, now, stack, cw, sk, dk, inst>>
    /\ CmdFrame

\* if not all([region, instance_type, instance_name, ami_id]):
\*     config = prompt_create_configuration(region)
\*     if not config: print_error("Creation cancelled"); raise typer.Exit(1)
\*     region = config['region'] ...
\* (prompt_region calls get_available_regions, which has no try; a config
\* that is returned holds every required parameter, so the check of :59
\* passes)
CreateConfig ==
    /\ cmd.name = "create" /\ cmd.pc = "config"
    /\ IF cmd.region # None
          THEN cmd' = [cmd EXCEPT !.pc = "create_key_pair"]
          ELSE \/ cmd' = [cmd EXCEPT !.region = GivenRegion, !.pc = "create_key_pair"]
               \/ CmdExit("1", {"cancelled"}, cmd)
               \/ CmdExit("raise", {}, cmd)
    /\ UNCHANGED <<aws_key, key_file, now, stack, cw, sk, dk, inst>>
    /\ CmdFrame

\* key_path = create_key_pair(region, key_name): entry
CreateKeyPair ==
    /\ cmd.name = "create" /\ cmd.pc = "create_key_pair" /\ kp[1].pc = "idle"
    /\ kp' = [kp EXCEPT ![1] = [pc |-> "exists", ret |-> "-", private_key |-> 0,
                                log |-> <<>>, file0 |-> key_file, aws0 |-> aws_key,
                                next0 |-> next_key, calls |-> 1,
                                file1 |-> NoFile, aws1 |-> 0]]
    /\ cmd' = [cmd EXCEPT !.pc = "creating_key", !.calls = @ \cup {"create_key_pair"}]
    /\ UNCHANGED <<aws_key, key_file, next_key, now, pwVars, stack, cw, sk, dk, inst>>

\* create_key_pair has returned
\* if not key_path: print_error("Failed to create key pair"); raise typer.Exit(1)
CreateKeyPairReturn ==
    /\ cmd.name = "create" /\ cmd.pc = "creating_key" /\ kp[1].pc = "returned"
    /\ LET rec == [cmd EXCEPT !.key_path = kp[1].ret,
                              !.key_created = HasEvent(kp[1].log, "create:ok")]
       IN  IF kp[1].ret # None
              THEN cmd' = [rec EXCEPT !.pc = "create_stack"]
              ELSE CmdExit("1", {"key_pair_failed"}, rec)
    /\ kp' = [kp EXCEPT ![1] = IdleRun]
    /\ UNCHANGED <<aws_key, key_file, next_key, now, pwVars, stack, cw, sk, dk, inst>>

\* stack_id = create_stack(region=region, stack_name=stack_name,
\*                         parameters=parameters, wait=True): entry
CreateCreateStack ==
    /\ cmd.name = "create" /\ cmd.pc = "create_stack" /\ sk.pc = "idle"
    /\ sk' = [IdleStk EXCEPT !.fn = "create_stack", !.pc = "request", !.wait = TRUE]
    /\ cmd' = [cmd EXCEPT !.pc = "creating", !.calls = @ \cup {"create_stack"}]
    /\ UNCHANGED <<aws_key, key_file, now, stack, cw, dk, inst>>
    /\ CmdFrame

\* mutant: a failed stack takes the key pair of the run with it
CreateCreateStackReturn_Rollback ==
    /\ cmd.name = "create" /\ cmd.pc = "creating" /\ sk.pc = "returned"
    /\ LET rec == [cmd EXCEPT !.stack_id = sk.ret,
                              !.wait_exit = IF sk.exit = "rejected" THEN "rejected"
                                            ELSE sk.wait_exit]
       IN  IF sk.ret # None
              THEN /\ cmd' = [rec EXCEPT !.pc = "outputs"]
                   /\ UNCHANGED <<aws_key, key_file>>
              ELSE /\ CmdExit("1", {"stack_failed"},
                              [rec EXCEPT !.calls = @ \cup {"delete_key_pair"}])
                   /\ aws_key' = 0
                   /\ key_file' = NoFile
    /\ sk' = IdleStk
    /\ UNCHANGED <<now, stack, cw, dk, inst>>
    /\ CmdFrame

\* create_stack has returned
\* if not stack_id: print_error("Failed to create stack"); raise typer.Exit(1)
CreateCreateStackReturn ==
    /\ cmd.name = "create" /\ cmd.pc = "creating" /\ sk.pc = "returned"
    /\ LET rec == [cmd EXCEPT !.stack_id = sk.ret,
                              !.wait_exit = IF sk.exit = "rejected" THEN "rejected"
                                            ELSE sk.wait_exit]
       IN  IF sk.ret # None
              THEN cmd' = [rec EXCEPT !.pc = "outputs"]
              ELSE CmdExit("1", {"stack_failed"}, rec)
    /\ sk' = IdleStk
    /\ UNCHANGED <<aws_key, key_file, now, stack, cw, dk, inst>>
    /\ CmdFrame

\* mutant: the command gives up only when both outputs are missing
CreateOutputs_BothMissing ==
    /\ cmd.name = "create" /\ cmd.pc = "outputs"
    /\ \E response \in DescribeStackOutcomes :
       \E described \in DescribedOutputs(response) :
          LET outputs == get_stack_outputs(response, described)
              instance_id == OutputGet(outputs, "InstanceId")
              public_ip == OutputGet(outputs, "PublicIP")
              rec == [cmd EXCEPT !.response = Answered(response), !.outputs = outputs,
                                 !.calls = @ \cup {"get_stack_outputs"}]
          IN  IF instance_id \in {None, ""} /\ public_ip \in {None, ""}
                 THEN CmdExit("1", {"no_outputs"}, rec)
                 ELSE cmd' = [rec EXCEPT !.msgs = @ \cup {"created"},
                                         !.pc = IF cmd.skip_password THEN "show"
                                                ELSE "get_password"]
    /\ UNCHANGED <<aws_key, key_file, now, stack, cw, sk, dk, inst>>
    /\ CmdFrame

\* outputs = get_stack_outputs(region, stack_name)
\* instance_id = outputs.get('InstanceId'); public_ip = outputs.get('PublicIP')
\* if not instance_id or not public_ip:
\*     print_error("Failed to get instance information from stack outputs"); Exit(1)
\* print_success("Instance created successfully!")
\* password = None;  if not skip_password: ...
CreateOutputs ==
    /\ cmd.name = "create" /\ cmd.pc = "outputs"
    /\ \E response \in DescribeStackOutcomes :
       \E described \in DescribedOutputs(response) :
          LET outputs == get_stack_outputs(response, described)
              instance_id == OutputGet(outputs, "InstanceId")
              public_ip == OutputGet(outputs, "PublicIP")
              rec == [cmd EXCEPT !.response = Answered(response), !.outputs = outputs,
                                 !.calls = @ \cup {"get_stack_outputs"}]
          IN  IF instance_id \in {None, ""} \/ public_ip \in {None, ""}
                 THEN CmdExit("1", {"no_outputs"}, rec)
                 ELSE cmd' = [rec EXCEPT !.msgs = @ \cup {"created"},
                                         !.pc = IF cmd.skip_password THEN "show"
                                                ELSE "get_password"]
    /\ UNCHANGED <<aws_key, key_file, now, stack, cw, sk, dk, inst>>
    /\ CmdFrame

\* password = get_instance_password(region=region, instance_id=instance_id,
\*                private_key_path=key_path, max_wait=300): entry
CreateGetPassword ==
    /\ cmd.name = "create" /\ cmd.pc = "get_password" /\ pw.pc = "idle"
    /\ \E t \in EntryTimes :
          /\ now' = t
          /\ pw' = [IdlePwRec EXCEPT !.pc = "while", !.start_time = t,
                                     !.max_wait = CommandMaxWait,
                                     !.poll_interval = DefaultPollInterval, !.calls = 1]
    /\ cmd' = [cmd EXCEPT !.pc = "polling", !.calls = @ \cup {"get_instance_password"}]
    /\ UNCHANGED <<aws_key, key_file, next_key, kp, pw_seen, stack, cw, sk, dk, inst>>

\* get_instance_password has returned
CreateGotPassword ==
    /\ cmd.name = "create" /\ cmd.pc = "polling" /\ pw.pc = "returned"
    /\ cmd' = [cmd EXCEPT !.password = pw.ret, !.pc = "show"]
    /\ pw' = IdlePwRec
    /\ UNCHANGED <<aws_key, key_file, next_key, kp, pw_seen, now, stack, cw, sk, dk, inst>>

\* print_instance_info(..., password=password)
\* if not password: print_error("Password not available yet. Retrieve it later
\* with:"); print("  winaws password ...")
CreateShow ==
    /\ cmd.name = "create" /\ cmd.pc = "show"
    /\ CmdExit("0", {"instance_info"} \cup (IF cmd.password \in {"-", None, ""}
                                              THEN {"password_later"} ELSE {}), cmd)
    /\ UNCHANGED <<aws_key, key_file, now, stack, cw, sk, dk, inst>>
    /\ CmdFrame

(***************************************************************************)
(* SpecKey: one invocation slot calling create_key_pair repeatedly, from   *)
(* every combination of local file and provider registration.              *)
(***************************************************************************)
InitKey ==
    /\ aws_key \in 0..1
    /\ key_file \in {NoFile,
                     [content |-> 1, mode |-> OwnerOnly],
                     [content |-> 2, mode |-> OwnerOnly]}
    /\ next_key = InitKeys + 1
    /\ kp = [r \in Runs |-> IdleRun]
    /\ now = 0
    /\ pw = IdlePwRec
    /\ pw_seen = {}
    /\ stack = NoStack
    /\ cw = IdleWait
    /\ sk = IdleStk
    /\ dk = IdleDkp
    /\ inst = NoInstances
    /\ cmd = NoCmd

NextKey ==
    \/ CreateKeyPairCall(1)
    \/ KeyExists(1)
    \/ KeyDescribe(1)
    \/ KeyUnlink(1)
    \/ KeyDeleteRemote(1)
    \/ KeyCreateRemote(1)
    \/ KeyWrite(1)
    \/ KeyChmod(1)

SpecKey == InitKey /\ [][NextKey]_vars

(***************************************************************************)
(* SpecPwd: get_instance_password called with every max_wait and           *)
(* poll_interval of PwMaxWaits x PwPollIntervals against a provider that   *)
(* answers each poll as it likes, with every state of the key file.        *)
(***************************************************************************)
InitPwd ==
    /\ aws_key = InstanceKey
    /\ key_file \in {NoFile,
                     [content |-> InstanceKey, mode |-> OwnerOnly],
                     [content |-> 2, mode |-> OwnerOnly],
                     [content |-> 0, mode |-> OwnerOnly]}
    /\ next_key = InitKeys + 1
    /\ kp = [r \in Runs |-> IdleRun]
    /\ now = 0
    /\ pw = IdlePwRec
    /\ pw_seen = {}
    /\ stack = NoStack
    /\ cw = IdleWait
    /\ sk = IdleStk
    /\ dk = IdleDkp
    /\ inst = NoInstances
    /\ cmd = NoCmd

NextPwd ==
    \/ GetInstancePasswordCall
    \/ PwWhile
    \/ PwQuery
    \/ PwDecrypt
    \/ PwSleep

SpecPwd == InitPwd /\ [][NextPwd]_vars

(***************************************************************************)
(* SpecCfn: one wait for creation or deletion, entered with the stack in   *)
(* any status, while the provider moves the stack on.                      *)
(***************************************************************************)
InitCfn ==
    /\ aws_key = InstanceKey
    /\ key_file = [content |-> InstanceKey, mode |-> OwnerOnly]
    /\ next_key = InitKeys + 1
    /\ kp = [r \in Runs |-> IdleRun]
    /\ now = 0
    /\ pw = IdlePwRec
    /\ pw_seen = {}
    /\ stack \in {NoStack} \cup StackStatuses
    /\ cw = IdleWait
    /\ sk = IdleStk
    /\ dk = IdleDkp
    /\ inst = NoInstances
    /\ cmd = NoCmd

NextCfn ==
    \/ StackProgress
    \/ WaitForStackCreationCall
    \/ WaitCreateWhile
    \/ WaitCreateDescribe
    \/ WaitForStackDeletionCall
    \/ WaitDeleteWhile
    \/ WaitDeleteDescribe
    \/ WaitSleep

SpecCfn == InitCfn /\ [][NextCfn]_vars

(***************************************************************************)
(* SpecStk: one call of create_stack or delete_stack, with and without     *)
(* wait, entered with the stack in any status, while the provider moves    *)
(* the stack on.                                                           *)
(***************************************************************************)
InitStk ==
    /\ aws_key = InstanceKey
    /\ key_file = [content |-> InstanceKey, mode |-> OwnerOnly]
    /\ next_key = InitKeys + 1
    /\ kp = [r \in Runs |-> IdleRun]
    /\ now = 0
    /\ pw = IdlePwRec
    /\ pw_seen = {}
    /\ stack \in {NoStack} \cup StackStatuses
    /\ cw = IdleWait
    /\ sk = IdleStk
    /\ dk = IdleDkp
    /\ inst = NoInstances
    /\ cmd = NoCmd

NextStk ==
    \/ StackProgress
    \/ CreateStackCall
    \/ CreateStackRequest
    \/ CreateStackWait
    \/ CreateStackReturn
    \/ DeleteStackCall
    \/ DeleteStackRequest
    \/ DeleteStackWait
    \/ DeleteStackReturn
    \/ WaitCreateWhile
    \/ WaitCreateDescribe
    \/ WaitDeleteWhile
    \/ WaitDeleteDescribe
    \/ WaitSleep

SpecStk == InitStk /\ [][NextStk]_vars

(***************************************************************************)
(* SpecDkp: delete_key_pair called repeatedly, from every combination of   *)
(* local file and provider registration.                                   *)
(***************************************************************************)
InitDkp ==
    /\ aws_key \in 0..1
    /\ key_file \in {NoFile,
                     [content |-> 1, mode |-> OwnerOnly],
                     [content |-> 2, mode |-> UmaskMode]}
    /\ next_key = InitKeys + 1
    /\ kp = [r \in Runs |-> IdleRun]
    /\ now = 0
    /\ pw = IdlePwRec
    /\ pw_seen = {}
    /\ stack = NoStack
    /\ cw = IdleWait
    /\ sk = IdleStk
    /\ dk = IdleDkp
    /\ inst = NoInstances
    /\ cmd = NoCmd

NextDkp ==
    \/ DeleteKeyPairCall
    \/ DkpDeleteRemote
    \/ DkpExists
    \/ DkpUnlink

SpecDkp == InitDkp /\ [][NextDkp]_vars

(***************************************************************************)
(* SpecCmd: one process running start, stop, status, terminate or          *)
(* password, with or without an instance id and a region, against an       *)
(* instance in any region; terminate and password, which do not read the   *)
(* instance's state, are run against a running instance.                   *)
(***************************************************************************)
CommandNames == {"start", "stop", "status", "terminate", "password"}
\* the other instance of the account: in the given region, not the tool's
Bystander == [region |-> GivenRegion, state |-> "running", managed_by |-> NotAvailable]

EnvFor(name) ==
    IF name \in {"terminate", "password"}
       THEN {r \in InstanceRecs : r.state = "running" /\ r.managed_by = ManagedBy}
       ELSE InstanceRecs

InitCmd ==
    \E name \in CommandNames :
       /\ aws_key = InstanceKey
       /\ key_file \in {[content |-> InstanceKey, mode |-> OwnerOnly]}
                          \cup (IF name = "password" THEN {NoFile} ELSE {})
       /\ next_key = InitKeys + 1
       /\ kp = [r \in Runs |-> IdleRun]
       /\ now = 0
       /\ pw = IdlePwRec
       /\ pw_seen = {}
       /\ stack \in IF name = "terminate" THEN {NoStack} \cup StackStatuses
                                          ELSE {"CREATE_COMPLETE"}
       /\ cw = IdleWait
       /\ sk = IdleStk
       /\ dk = IdleDkp
       /\ \E target \in EnvFor(name) :
              inst = [i \in Instances |-> IF i = "i-1" THEN target ELSE Bystander]
       /\ \E instance_id \in {None, "i-1"}, region \in {None, GivenRegion},
             yes \in (IF name = "terminate" THEN BOOLEAN ELSE {FALSE}) :
              cmd = Argv(name, instance_id, region, yes)

NextCmd ==
    \/ CmdSelect
    \/ CmdProbe
    \/ CmdInfo
    \/ StartInstance
    \/ StopInstance
    \/ StatusShow
    \/ TerminateConfirm
    \/ TerminateStackExists
    \/ TerminateDeleteStack
    \/ DeleteStackRequest
    \/ DeleteStackWait
    \/ WaitDeleteWhile
    \/ WaitDeleteDescribe
    \/ WaitSleep
    \/ StackProgress
    \/ DeleteStackReturn
    \/ TerminateDeleteStackReturn
    \/ TerminateDeleteKeyPair
    \/ DkpDeleteRemote
    \/ DkpExists
    \/ DkpUnlink
    \/ TerminateDone
    \/ PasswordKeyPath
    \/ PasswordGetPassword
    \/ PwWhile
    \/ PwQuery
    \/ PwDecrypt
    \/ PwSleep
    \/ PasswordReport

SpecCmd == InitCmd /\ [][NextCmd]_vars

(***************************************************************************)
(* SpecList: one process running list, or start, stop or status without an *)
(* instance id (the instance is selected from the listing), against two    *)
(* instances of any state and tag, each in the given region or in another  *)
(* one.                                                                    *)
(***************************************************************************)
ListEnv == {r \in InstanceRecs : r.region \in {GivenRegion, "us-east-1"}}

InitList ==
    /\ aws_key = InstanceKey
    /\ key_file = [content |-> InstanceKey, mode |-> OwnerOnly]
    /\ next_key = InitKeys + 1
    /\ kp = [r \in Runs |-> IdleRun]
    /\ now = 0
    /\ pw = IdlePwRec
    /\ pw_seen = {}
    /\ stack = "CREATE_COMPLETE"
    /\ cw = IdleWait
    /\ sk = IdleStk
    /\ dk = IdleDkp
    /\ inst \in [Instances -> ListEnv]
    /\ \/ \E region \in {None, GivenRegion}, all_regions \in BOOLEAN :
             cmd = ListArgv(region, all_regions)
       \/ \E name \in {"start", "stop", "status"} :
             cmd = Argv(name, None, GivenRegion, FALSE)

NextList ==
    \/ ListRegions
    \/ ListRegion
    \/ ListShow
    \/ CmdSelect
    \/ CmdInfo
    \/ StartInstance
    \/ StopInstance
    \/ StatusShow

SpecList == InitList /\ [][NextList]_vars

(***************************************************************************)
(* SpecCreate: one process running create, with the options given or asked *)
(* for, with and without --skip-password; the key name is free, or holds   *)
(* a stale file, or holds the registered pair and its file; the stack name *)
(* is free or taken.  The stack launches the instance with the pair        *)
(* registered under the key name.                                          *)
(***************************************************************************)
InitCreate ==
    /\ \/ aws_key = 0 /\ key_file = NoFile /\ next_key = InstanceKey
       \/ aws_key = 0 /\ key_file = [content |-> InitKeys, mode |-> OwnerOnly]
                      /\ next_key = InstanceKey
       \/ aws_key = InstanceKey /\ key_file = [content |-> InstanceKey, mode |-> OwnerOnly]
                                /\ next_key = InstanceKey + 1
    /\ kp = [r \in Runs |-> IdleRun]
    /\ now = 0
    /\ pw = IdlePwRec
    /\ pw_seen = {}
    /\ stack \in {NoStack, "CREATE_COMPLETE"}
    /\ cw = IdleWait
    /\ sk = IdleStk
    /\ dk = IdleDkp
    /\ inst = NoInstances
    /\ \E region \in {None, GivenRegion}, skip_password \in BOOLEAN :
          cmd = CreateArgv(region, skip_password)

NextCreate ==
    \/ CreateCredentials
    \/ CreateConfig
    \/ CreateKeyPair
    \/ KeyExists(1)
    \/ KeyDescribe(1)
    \/ KeyUnlink(1)
    \/ KeyDeleteRemote(1)
    \/ KeyCreateRemote(1)
    \/ KeyWrite(1)
    \/ KeyChmod(1)
    \/ CreateKeyPairReturn
    \/ CreateCreateStack
    \/ CreateStackRequest
    \/ CreateStackWait
    \/ WaitCreateWhile
    \/ WaitCreateDescribe
    \/ WaitSleep
    \/ StackProgress
    \/ CreateStackReturn
    \/ CreateCreateStackReturn
    \/ CreateOutputs
    \/ CreateGetPassword
    \/ PwWhile
    \/ PwQuery
    \/ PwDecrypt
    \/ PwSleep
    \/ CreateGotPassword
    \/ CreateShow

SpecCreate == InitCreate /\ [][NextCreate]_vars

(***************************************************************************)
(* SpecRace: two processes call create_key_pair once each for the same key *)
(* name, their statements interleaved in every order; the file and the     *)
(* registration start consistent (both absent, both the same pair, or one  *)
(* of them absent).                                                        *)
(***************************************************************************)
InitRace ==
    /\ \/ aws_key = 0 /\ key_file = NoFile
       \/ aws_key = 0 /\ key_file = [content |-> InitKeys, mode |-> OwnerOnly]
       \/ aws_key = InstanceKey /\ key_file = NoFile
       \/ aws_key = InstanceKey /\ key_file = [content |-> InstanceKey, mode |-> OwnerOnly]
    /\ next_key = InitKeys + 1
    /\ kp = [r \in Runs |-> [IdleRun EXCEPT !.calls = MaxKeyCalls - 1]]
    /\ now = 0
    /\ pw = IdlePwRec
    /\ pw_seen = {}
    /\ stack = NoStack
    /\ cw = IdleWait
    /\ sk = IdleStk
    /\ dk = IdleDkp
    /\ inst = NoInstances
    /\ cmd = NoCmd

NextRace ==
    \/ CreateKeyPairCall(1)
    \/ CreateKeyPairCall(2)
    \/ KeyExists(1)
    \/ KeyExists(2)
    \/ KeyDescribe(1)
    \/ KeyDescribe(2)
    \/ KeyUnlink(1)
    \/ KeyUnlink(2)
    \/ KeyDeleteRemote(1)
    \/ KeyDeleteRemote(2)
    \/ KeyCreateRemote(1)
    \/ KeyCreateRemote(2)
    \/ KeyWrite(1)
    \/ KeyWrite(2)
    \/ KeyChmod(1)
    \/ KeyChmod(2)

SpecRace == InitRace /\ [][NextRace]_vars

(***************************************************************************)
(* SpecPoll: the three polling waits, one kind per behaviour:              *)
(* wait_for_stack_creation or wait_for_stack_deletion once, with every     *)
(* timeout and the stack in every status, or get_instance_password with    *)
(* every max_wait and poll_interval (the stack plays no part in it).       *)
(* SpecPollFair adds that a wait that has been entered keeps running; its  *)
(* stack waits are entered with the timeouts below the default one.        *)
(***************************************************************************)
InitPoll ==
    /\ aws_key = InstanceKey
    /\ key_file = [content |-> InstanceKey, mode |-> OwnerOnly]
    /\ next_key = InitKeys + 1
    /\ kp = [r \in Runs |-> IdleRun]
    /\ now = 0
    /\ pw = IdlePwRec
    /\ pw_seen = {}
    /\ stack \in {NoStack} \cup StackStatuses
    /\ cw = IdleWait
    /\ sk = IdleStk
    /\ dk = IdleDkp
    /\ inst = NoInstances
    /\ cmd = NoCmd

PollCreate == pw.pc = "idle" /\ WaitForStackCreationCall
PollDelete == pw.pc = "idle" /\ WaitForStackDeletionCall
PollPassword == cw.pc = "idle" /\ stack = NoStack /\ GetInstancePasswordCall

NextPoll ==
    \/ StackProgress
    \/ PollCreate
    \/ WaitCreateWhile
    \/ WaitCreateDescribe
    \/ PollDelete
    \/ WaitDeleteWhile
    \/ WaitDeleteDescribe
    \/ WaitSleep
    \/ PollPassword
    \/ PwWhile
    \/ PwQuery
    \/ PwDecrypt
    \/ PwSleep

SpecPoll == InitPoll /\ [][NextPoll]_vars

\* the next statement of the wait that has been entered (at most one of
\* these is enabled)
PollStep ==
    \/ WaitCreateWhile \/ WaitCreateDescribe
    \/ WaitDeleteWhile \/ WaitDeleteDescribe
    \/ WaitSleep
    \/ PwWhile \/ PwQuery \/ PwDecrypt \/ PwSleep

\* the interpreter runs the statements of a wait it has entered
PollFairness == WF_vars(PollStep)

FairCreate == PollCreate /\ cw'.timeout < DefaultTimeout
FairDelete == PollDelete /\ cw'.timeout < DefaultTimeout

NextPollFair ==
    \/ StackProgress
    \/ FairCreate
    \/ WaitCreateWhile
    \/ WaitCreateDescribe
    \/ FairDelete
    \/ WaitDeleteWhile
    \/ WaitDeleteDescribe
    \/ WaitSleep
    \/ PollPassword
    \/ PwWhile
    \/ PwQuery
    \/ PwDecrypt
    \/ PwSleep

SpecPollFair == InitPoll /\ [][NextPollFair]_vars /\ PollFairness

(***************************************************************************)
(* Claims about create_key_pair (SpecKey).                                 *)
(***************************************************************************)
KeyReturned(r) == kp[r].pc = "returned"

\* an exception ended the call: the last statement executed raised
KeyRaised(r) ==
    /\ Len(kp[r].log) > 0
    /\ kp[r].log[Len(kp[r].log)] \in
          {"describe:Exception", "unlink:OSError", "delete:Exception", "create:Duplicate",
           "create:Exception", "write:OSError", "chmod:OSError"}

\* C1: whenever create_key_pair returns a path, a describe or a create of
\* that key name succeeded at the provider during that call, and the file
\* exists at the returned path.
KeyC1_PathMeansConfirmed ==
    \A r \in Runs :
        (KeyReturned(r) /\ kp[r].ret = KeyPath) =>
            /\ HasEvent(kp[r].log, "describe:ok") \/ HasEvent(kp[r].log, "create:ok")
            /\ key_file # NoFile

KeyC1_Witness ==
    /\ KeyReturned(1) /\ kp[1].ret = KeyPath
    /\ HasEvent(kp[1].log, "create:ok")
    /\ kp[1].calls = 2

\* C2: called with the local file present and no registration at the
\* provider, create_key_pair either fails because a provider call or a file
\* operation raised (and then returns None), or it has deleted the stale
\* file, created a fresh pair at the provider and written its private key to
\* the same path: on return the registration and the file both exist and
\* are the pair created in this call.  None is returned only after a raise.
KeyC2_StaleFileReconciled ==
    \A r \in Runs :
        (KeyReturned(r) /\ kp[r].file0 # NoFile /\ kp[r].aws0 = 0) =>
            \/ kp[r].ret = None /\ KeyRaised(r)
            \/ /\ kp[r].ret = KeyPath
               /\ \E d \in {"describe:NotFound", "describe:ClientError"},
                     x \in {"delete:ok", "delete:ClientError"} :
                     kp[r].log = <<"exists:True", d, "unlink:ok", x,
                                   "create:ok", "write:ok", "chmod:ok">>
               /\ aws_key # 0
               /\ key_file # NoFile
               /\ key_file.content = aws_key
               /\ aws_key = kp[r].private_key
               /\ aws_key >= kp[r].next0
               /\ key_file.content # kp[r].file0.content

KeyC2_Witness ==
    /\ KeyReturned(1) /\ kp[1].ret = KeyPath
    /\ kp[1].file0 = [content |-> 2, mode |-> OwnerOnly] /\ kp[1].aws0 = 0
    /\ key_file.content = aws_key /\ aws_key = InitKeys + 1

\* C3 (as claimed): called with the local file and the provider registration
\* both present, create_key_pair is a no-op: it issues no provider
\* create_key_pair or delete_key_pair call, leaves the file and the
\* registration as they were, and returns the path (a call that a raised
\* exception ended may return None instead).
KeyC3_ReuseIsNoop ==
    \A r \in Runs :
        (KeyReturned(r) /\ kp[r].file0 # NoFile /\ kp[r].aws0 # 0) =>
            /\ kp[r].ret = KeyPath \/ (kp[r].ret = None /\ KeyRaised(r))
            /\ \A i \in 1..Len(kp[r].log) :
                  kp[r].log[i] \notin {"delete:ok", "delete:ClientError", "delete:Exception",
                                       "create:ok", "create:Duplicate", "create:Exception"}
            /\ key_file = kp[r].file0
            /\ aws_key = kp[r].aws0

(***************************************************************************)
(* Claims about get_instance_password (SpecPwd).                           *)
(***************************************************************************)
PwReturned == pw.pc = "returned"
PwElapsed == now - pw.start_time
\* material has been retrieved in this call
PwRetrieved == pw.pc = "decrypt" \/ (PwReturned /\ pw.exit \in {"decrypted", "decrypt_failed"})

\* C4: the timeout failure is returned only once the time since start_time
\* is at least max_wait; a call in which every poll came back empty and
\* none raised can return nothing else, and it cannot poll for ever: poll
\* k is issued only while (k - 1) * poll_interval < max_wait.
PwC4_TimeoutNotEarly ==
    /\ (PwReturned /\ pw.exit = "timeout") => PwElapsed >= pw.max_wait
    /\ (PwReturned /\ pw.empties = pw.queries) =>
           pw.exit = "timeout" /\ pw.ret = None /\ PwElapsed >= pw.max_wait
    /\ pw.queries >= 1 => (pw.queries - 1) * pw.poll_interval < pw.max_wait

PwC4_Witness ==
    /\ PwReturned /\ pw.exit = "timeout"
    /\ pw.max_wait = 25 /\ pw.empties = pw.queries /\ pw.queries >= 2

\* C5: once a poll returns material, decryption is attempted exactly once
\* and at once (no sleep, no further query, no time in between); a failed
\* decryption ends the call with None.
PwC5_DecryptOnceThenStop ==
    /\ pw.decrypts <= 1
    /\ pw.pc = "decrypt" => pw.decrypts = 0
    /\ PwRetrieved =>
          /\ pw.queries = pw.empties + 1
          /\ pw.sleeps = pw.empties
          /\ now = pw.retrieved_at
    /\ (PwReturned /\ pw.exit \in {"decrypted", "decrypt_failed"}) => pw.decrypts = 1
    /\ (PwReturned /\ pw.decrypts = 1 /\ pw.ret \in {None, ""}) =>
          pw.exit = "decrypt_failed" /\ pw.ret = None
    /\ pw.pc \in {"while", "query", "sleep"} => pw.decrypts = 0

PwC5_Witness ==
    /\ PwReturned /\ pw.exit = "decrypt_failed"
    /\ pw.empties = 2 /\ pw.decrypts = 1
    /\ key_file = [content |-> 2, mode |-> OwnerOnly]

\* C6: when the first N polls are empty and poll N+1 returns material, the
\* call has issued N+1 queries and slept N times; with provider calls that
\* take no time and sleeps of exactly poll_interval it has blocked for
\* N * poll_interval, and it does not give up before N * poll_interval
\* reaches max_wait.
PwC6_BlocksNIntervals ==
    /\ PwRetrieved =>
          /\ pw.queries = pw.empties + 1
          /\ pw.sleeps = pw.empties
          /\ PwElapsed >= pw.empties * pw.poll_interval
          /\ pw.exact => /\ PwElapsed = pw.empties * pw.poll_interval
                         /\ pw.empties * pw.poll_interval < pw.max_wait
    /\ (PwReturned /\ pw.exit = "timeout" /\ pw.exact) =>
          /\ pw.empties * pw.poll_interval >= pw.max_wait
          /\ pw.queries = pw.empties /\ pw.sleeps = pw.empties

PwC6_Witness ==
    /\ pw.pc = "decrypt" /\ pw.exact
    /\ pw.empties = 2 /\ pw.poll_interval = 15 /\ PwElapsed = 30

TimeoutMsg == "Timeout waiting for password data"
DecryptMsg == "Failed to decrypt password"

\* C7 (as claimed): the value returned on a timeout differs from the value
\* returned when the material could not be decrypted.
PwC7_FailuresDistinct ==
    \A a \in pw_seen, b \in pw_seen :
        (a[1] = "timeout" /\ b[1] = "decrypt_failed") => a[2] # b[2]

\* C7 (amended): every failure returns the same value, None; the timeout and
\* the failed decryption differ only in the error message printed before
\* the return.
PwC7_FailuresDifferByMessageOnly ==
    /\ \A a \in pw_seen : a[1] \in {"timeout", "decrypt_failed", "error"} => a[2] = None
    /\ (PwReturned /\ pw.exit = "timeout") => pw.error = TimeoutMsg
    /\ (PwReturned /\ pw.exit = "decrypt_failed") => pw.error = DecryptMsg
    /\ (PwReturned /\ pw.ret = None) => pw.error # "-"

PwC7_Witness ==
    /\ <<"timeout", None>> \in pw_seen
    /\ <<"decrypt_failed", None>> \in pw_seen
    /\ PwReturned /\ pw.exit = "decrypt_failed" /\ pw.error = DecryptMsg

(***************************************************************************)
(* Claims about wait_for_stack_creation and wait_for_stack_deletion        *)
(* (SpecCfn).                                                              *)
(***************************************************************************)
WaitReturned(fn) == cw.fn = fn /\ cw.pc = "returned"
WaitElapsed == now - cw.start_time
\* provider calls that change nothing
ReadOnlyCalls == {"describe_stacks", "describe_stack_events"}

\* C8: wait_for_stack_creation returns True only when its last describe
\* reported CREATE_COMPLETE (and no terminal failure was ever reported to
\* it), returns False at once when a describe reports CREATE_FAILED,
\* ROLLBACK_COMPLETE or ROLLBACK_FAILED, and after any other status goes on
\* polling: the only return left to it then is the timeout.
CfnC8_CreateTerminalStatuses ==
    cw.fn = "create" =>
        /\ cw.ret = "True" => cw.pc = "returned" /\ cw.last = "CREATE_COMPLETE" /\ ~cw.fail_seen
        /\ cw.last = "CREATE_COMPLETE" => cw.pc = "returned" /\ cw.ret = "True"
        /\ cw.fail_seen => /\ cw.pc = "returned" /\ cw.ret = "False" /\ cw.exit = "failed"
                           /\ cw.last \in CreateFailures
        /\ cw.last \in CreateFailures => cw.fail_seen
        /\ cw.last \in StackStatuses \ ({"CREATE_COMPLETE"} \cup CreateFailures) =>
              \/ cw.pc \in {"sleep", "while", "describe"}
              \/ cw.pc = "returned" /\ cw.exit = "timeout" /\ cw.ret = "False"

CfnC8_Witness ==
    /\ WaitReturned("create") /\ cw.ret = "False" /\ cw.exit = "failed"
    /\ cw.last = "ROLLBACK_COMPLETE" /\ cw.describes >= 3

\* C9: wait_for_stack_creation returns the timeout failure only when the
\* time since start_time has reached the timeout and no describe of the call
\* reported a terminal status, and by then the call has issued no provider
\* call but describe_stacks.
CfnC9_TimeoutLeavesStack ==
    (WaitReturned("create") /\ cw.exit = "timeout") =>
        /\ cw.ret = "False"
        /\ WaitElapsed >= cw.timeout
        /\ cw.last \notin {"CREATE_COMPLETE"} \cup CreateFailures
        /\ ~cw.fail_seen
        /\ cw.calls \subseteq {"describe_stacks"}

CfnC9_Witness ==
    /\ WaitReturned("create") /\ cw.exit = "timeout"
    /\ cw.timeout = DefaultTimeout /\ cw.last = "CREATE_IN_PROGRESS"
    /\ stack = "CREATE_IN_PROGRESS"

\* C10: wait_for_stack_deletion returns True exactly when a describe fails
\* with the ClientError "does not exist", also when the describe before it
\* reported DELETE_IN_PROGRESS; after a status, whichever, it never returns
\* True.
CfnC10_DeletedIsNotFound ==
    cw.fn = "delete" =>
        /\ cw.ret = "True" => cw.pc = "returned" /\ cw.last = DoesNotExist
        /\ cw.last = DoesNotExist => cw.pc = "returned" /\ cw.ret = "True"
        /\ cw.last \in StackStatuses => cw.ret # "True"

CfnC10_Witness ==
    /\ WaitReturned("delete") /\ cw.ret = "True"
    /\ cw.status = "DELETE_IN_PROGRESS" /\ cw.last = DoesNotExist
    /\ cw.describes = 2

(***************************************************************************)
(* Claims about delete_stack (SpecStk).                                    *)
(***************************************************************************)
StkReturned(fn) == sk.fn = fn /\ sk.pc = "returned"

\* C11: a delete_stack called with wait=True returns True only when its
\* wait saw the deletion complete (the describe answered "does not exist"),
\* and returns False when the wait ended on DELETE_FAILED, on the timeout,
\* or on an error.
StkC11_WaitedDeleteReportsOutcome ==
    (StkReturned("delete_stack") /\ sk.wait) =>
        (sk.ret = "True" <=> sk.wait_exit = "deleted")

(***************************************************************************)
(* Claims about delete_key_pair (SpecDkp).                                 *)
(***************************************************************************)
DkpReturned == dk.pc = "returned"

\* C17: a delete_key_pair that has returned has looked for the local file
\* and, when it was there, tried to unlink it, whether or not the deletion
\* at the provider failed; it returns True exactly when neither deletion it
\* attempted failed; a local file that is absent is no failure.  A deletion
\* that did not fail took effect.
DkpC17_BestEffortDualDeletion ==
    DkpReturned =>
        /\ HasEvent(dk.log, "delete:ok") \/ HasEvent(dk.log, "delete:Exception")
        /\ IF dk.file0 # NoFile
              THEN HasEvent(dk.log, "unlink:ok") \/ HasEvent(dk.log, "unlink:OSError")
              ELSE HasEvent(dk.log, "exists:False")
        /\ dk.ret = "True" <=> /\ ~HasEvent(dk.log, "delete:Exception")
                               /\ ~HasEvent(dk.log, "unlink:OSError")
        /\ HasEvent(dk.log, "delete:ok") => aws_key = 0
        /\ HasEvent(dk.log, "unlink:ok") => key_file = NoFile
        /\ HasEvent(dk.log, "delete:Exception") => aws_key = dk.aws0
        /\ HasEvent(dk.log, "unlink:OSError") => key_file = dk.file0

\* the provider refused the deletion and the local file was removed all
\* the same
DkpC17_Witness ==
    /\ DkpReturned
    /\ dk.file0 # NoFile /\ dk.aws0 # 0
    /\ HasEvent(dk.log, "delete:Exception") /\ HasEvent(dk.log, "unlink:ok")
    /\ dk.ret = "False" /\ key_file = NoFile /\ aws_key # 0
(***************************************************************************)
(* Claims about the commands (SpecCmd).                                    *)
(***************************************************************************)
CmdExited == cmd.pc = "exited"
\* the instance was found and its state read
CmdSawState == cmd.info # NoInfo

\* C12: when the deletion of the stack that terminate started failed (its
\* wait ended on DELETE_FAILED, or the provider rejected the deletion), the
\* command exits 1 with the manual-cleanup warning, issues no
\* delete_key_pair and does not print the terminated-successfully message.
CmdC12_FailedDeletionStopsTerminate ==
    (cmd.name = "terminate" /\ cmd.wait_exit \in {"failed", "rejected"}) =>
        /\ CmdExited /\ cmd.exit = "1"
        /\ "cleanup_warning" \in cmd.msgs
        /\ "delete_key_pair" \notin cmd.calls
        /\ "terminated" \notin cmd.msgs

\* C13: start on an instance seen running issues no start_instances and
\* exits 0; stop on an instance seen stopped issues no stop_instances and
\* exits 0.
CmdC13_IdempotentShortCircuit ==
    /\ (cmd.name = "start" /\ CmdSawState /\ cmd.info.state = "running") =>
           /\ cmd.calls = {}
           /\ CmdExited => cmd.exit = "0"
    /\ (cmd.name = "stop" /\ CmdSawState /\ cmd.info.state = "stopped") =>
           /\ cmd.calls = {}
           /\ CmdExited => cmd.exit = "0"

\* stop has ended on an instance it saw stopped
CmdC13_Witness ==
    /\ cmd.name = "stop" /\ CmdExited
    /\ cmd.info.state = "stopped" /\ "already" \in cmd.msgs
    /\ cmd.exit = "0" /\ inst[cmd.instance_id].state = "stopped"

\* C14: start_instances is issued only by start and only after the state
\* was seen stopped or stopping, stop_instances only by stop and only after
\* it was seen running or pending; in every other state that is not the
\* idempotent one the command exits 1 with no provider call that changes
\* anything.
CmdC14_IncompatibleStateFails ==
    /\ "start_instances" \in cmd.calls =>
           cmd.name = "start" /\ cmd.info.state \in {"stopped", "stopping"}
    /\ "stop_instances" \in cmd.calls =>
           cmd.name = "stop" /\ cmd.info.state \in {"running", "pending"}
    /\ (cmd.name = "start" /\ CmdSawState
           /\ cmd.info.state \notin {"running", "stopped", "stopping"}) =>
           /\ cmd.calls = {}
           /\ CmdExited => cmd.exit = "1"
    /\ (cmd.name = "stop" /\ CmdSawState
           /\ cmd.info.state \notin {"stopped", "running", "pending"}) =>
           /\ cmd.calls = {}
           /\ CmdExited => cmd.exit = "1"

\* stop has ended on an instance that is being terminated
CmdC14_Witness ==
    /\ cmd.name = "stop" /\ CmdExited
    /\ cmd.info.state = "shutting-down" /\ "cannot" \in cmd.msgs
    /\ cmd.exit = "1" /\ cmd.calls = {}

\* C15: terminate calls delete_stack and delete_key_pair only after --yes
\* or a confirmation answered yes; a confirmation declined or aborted ends
\* the command with exit 1, no call of either made, the registration of
\* the key and the local key file as they were.
CmdC15_TerminateNeedsConfirmation ==
    /\ cmd.calls \cap {"delete_stack", "delete_key_pair"} # {} =>
           cmd.name = "terminate" /\ (cmd.yes \/ cmd.confirmed)
    /\ (cmd.name = "terminate" /\ ~cmd.yes /\ ~cmd.confirmed) =>
           /\ cmd.calls = {} /\ sk.pc = "idle" /\ dk.pc = "idle"
           /\ aws_key = InstanceKey
           /\ key_file = [content |-> InstanceKey, mode |-> OwnerOnly]
    /\ "cancelled" \in cmd.msgs =>
           CmdExited /\ cmd.exit = "1" /\ ~cmd.yes /\ ~cmd.confirmed

\* terminate has ended on a declined confirmation, the instance found
CmdC15_Witness ==
    /\ cmd.name = "terminate" /\ CmdExited
    /\ "cancelled" \in cmd.msgs /\ CmdSawState
    /\ stack = "CREATE_COMPLETE"

\* C19: no command ends by an exception that a provider call raised.
CmdC19_NoExceptionCrossesCommand ==
    cmd.exit # "raise"

\* C20: the regions probed are an initial part of the fixed list, in its
\* order; a region found by probing is the last one probed and the region
\* of the instance; the command gives up the probing only after the whole
\* list, with exit 1 and no provider call that changes anything; nothing
\* is probed when a region was given.
CmdC20_RegionProbing ==
    /\ Len(cmd.probes) <= Len(ProbeRegions)
    /\ \A i \in 1..Len(cmd.probes) : cmd.probes[i] = ProbeRegions[i]
    /\ (cmd.probes # <<>> /\ cmd.region # None) =>
           /\ cmd.region = cmd.probes[Len(cmd.probes)]
           /\ inst[cmd.instance_id].region = cmd.region
    /\ (cmd.probes # <<>> /\ cmd.region = None) =>
           /\ cmd.calls = {}
           /\ \/ cmd.pc = "probe" /\ Len(cmd.probes) < Len(ProbeRegions)
              \/ /\ CmdExited /\ cmd.exit = "1" /\ "no_region" \in cmd.msgs
                 /\ cmd.probes = ProbeRegions
    /\ "no_region" \in cmd.msgs => cmd.probes = ProbeRegions /\ cmd.region = None
    /\ cmd.calls # {} => cmd.region # None

\* terminate found the instance in the third region of the list and went
\* on to delete its stack there
CmdC20_Witness ==
    /\ cmd.name = "terminate"
    /\ cmd.probes = <<"us-east-1", "us-west-2", "eu-west-1">>
    /\ cmd.region = "eu-west-1"
    /\ "delete_stack" \in cmd.calls
(***************************************************************************)
(* Claims about the listing (SpecList).                                    *)
(***************************************************************************)
\* C16: every instance that list_managed_instances returned, to the list
\* command or to a command that offers a selection, carries the tag
\* ManagedBy = winaws and is pending, running, stopping or stopped in the
\* region listed; the instance a selection yields is one of them.
ListC16_OnlyManagedAndLive ==
    /\ \A i \in cmd.listed :
           /\ inst[i].managed_by = ManagedBy
           /\ inst[i].state \in ListedStates
           /\ cmd.name # "list" => inst[i].region = cmd.region
    /\ (cmd.name # "list" /\ cmd.instance_id # None) => cmd.instance_id \in cmd.listed

\* list --all has shown the one managed instance; the other instance, in
\* the same region, is untagged
ListC16_Witness ==
    /\ cmd.name = "list" /\ CmdExited /\ cmd.all_regions
    /\ cmd.listed = {"i-1"} /\ "table" \in cmd.msgs
    /\ inst["i-2"].region = inst["i-1"].region
    /\ inst["i-2"].managed_by = NotAvailable /\ inst["i-2"].state = "running"
(***************************************************************************)
(* Claims about get_stack_outputs and the create command (SpecCreate).     *)
(***************************************************************************)
CreateAsked == cmd.name = "create" /\ "get_stack_outputs" \in cmd.calls
CreateLacksOutput ==
    \E key \in OutputKeys : OutputGet(cmd.outputs, key) = None

\* C18: when describe_stacks fails, get_stack_outputs gives the create
\* command the empty mapping and nothing is raised; when the mapping lacks
\* InstanceId or PublicIP, the command exits with code 1 at once and
\* get_instance_password is never called, so that no password query is
\* issued.
CreateC18_MissingOutputsFail ==
    CreateAsked =>
       /\ cmd.response \in {DoesNotExist, "ClientError", "Exception"} => cmd.outputs = {}
       /\ CreateLacksOutput =>
             /\ CmdExited /\ cmd.exit = "1" /\ "no_outputs" \in cmd.msgs
             /\ "get_instance_password" \notin cmd.calls
             /\ pw = IdlePwRec /\ pw_seen = {}

\* without --skip-password, the stack was created and described, its
\* outputs held the instance id and no public address
CreateC18_Witness ==
    /\ CreateAsked /\ ~cmd.skip_password
    /\ cmd.stack_id = StackId /\ cmd.wait_exit = "complete"
    /\ cmd.outputs = {<<"InstanceId", "value">>}
    /\ CmdExited

CreateFailedAfterKey ==
    /\ cmd.name = "create" /\ CmdExited
    /\ cmd.msgs \cap {"stack_failed", "no_outputs"} # {}

\* C21: the create command never calls delete_key_pair or delete_stack, in
\* create_stack, its wait or itself; when it exits because the stack was
\* rejected, its creation failed, or its outputs are missing, the key pair
\* it obtained is still registered and its file still on disk with that
\* key.
CreateC21_NoRollback ==
    cmd.name = "create" =>
       /\ cmd.calls \cap {"delete_key_pair", "delete_stack"} = {}
       /\ dk = IdleDkp /\ sk.fn # "delete_stack" /\ "delete_stack" \notin cw.calls
       /\ CreateFailedAfterKey =>
             /\ cmd.key_path = KeyPath
             /\ aws_key # 0 /\ key_file # NoFile /\ key_file.content = aws_key

\* the run created the key pair, the submission was accepted and the
\* creation ended in a failure status; the command has exited with the pair
\* registered
CreateC21_Witness ==
    /\ CreateFailedAfterKey /\ cmd.key_created
    /\ cmd.wait_exit = "failed" /\ stack \in CreateFailures
    /\ aws_key = InstanceKey /\ key_file.content = InstanceKey

(***************************************************************************)
(* Further claims about create_stack (SpecStk), the commands (SpecCmd),    *)
(* create_key_pair (SpecKey) and decrypt_password (SpecPwd).               *)
(***************************************************************************)
\* C24 (as claimed): create_stack called with wait=True returns the stack id
\* only when its wait ended with CREATE_COMPLETE; after a failure status, a
\* status-query error or a timeout of the wait it returns None.
StkC24_WaitedCreateReportsOutcome ==
    (StkReturned("create_stack") /\ sk.wait) =>
        IF sk.exit = "done" /\ sk.wait_exit = "complete"
           THEN sk.ret = StackId
           ELSE sk.ret = None

\* C25 (as claimed): when terminate prints the terminated-successfully
\* message and exits 0, it has requested the deletion of the stack, its
\* wait has seen the stack gone, and delete_key_pair has returned True.
CmdC25_SuccessMeansDeleted ==
    (cmd.name = "terminate" /\ CmdExited /\ cmd.exit = "0" /\ "terminated" \in cmd.msgs) =>
        /\ "delete_stack" \in cmd.calls
        /\ cmd.wait_exit = "deleted"
        /\ cmd.key_ret = "True"

MutatingCalls == {"start_instances", "stop_instances", "delete_stack", "delete_key_pair"}

\* C26 (as claimed): start, stop and terminate run with an explicit instance
\* id issue no start_instances, stop_instances, delete_stack or
\* delete_key_pair for an instance whose ManagedBy tag is not winaws.
CmdC26_UnmanagedUntouched ==
    (/\ cmd.name \in {"start", "stop", "terminate"}
     /\ cmd.instance_id # None /\ cmd.listed = {}
     /\ inst[cmd.instance_id].managed_by # ManagedBy) =>
        cmd.calls \cap MutatingCalls = {}

\* C27 (as claimed): create_key_pair unlinks the local file only when the
\* key name is not registered at the provider.
KeyC27_UnlinkOnlyWhenUnregistered ==
    \A r \in Runs :
        HasEvent(kp[r].log, "unlink:ok") => kp[r].aws0 = 0

\* C28 (as claimed): whenever the key file holds key material, its mode is
\* 0600.
KeyC28_MaterialIsOwnerOnly ==
    (key_file # NoFile /\ key_file.content # 0) => key_file.mode = OwnerOnly

\* C23 (as claimed): decrypt_password applied to a ciphertext and a private
\* key other than the one the ciphertext was encrypted for returns no
\* password.
PwC23_WrongKeyFails ==
    (/\ PwReturned /\ pw.decrypts >= 1
     /\ key_file # NoFile /\ key_file.content # 0
     /\ key_file.content # pw.password_data.key) =>
        pw.ret = None

(***************************************************************************)
(* Claims about concurrent runs of create_key_pair (SpecRace).             *)
(***************************************************************************)
\* run r returned the path at a moment when the file was missing or held
\* another key than the registered one
KeyBadReturn(r) ==
    /\ KeyReturned(r) /\ kp[r].ret = KeyPath
    /\ \/ kp[r].file1 = NoFile
       \/ kp[r].file1.content # kp[r].aws1

\* the run has changed the file or the registration
KeyMutated(r) ==
    \E e \in {"unlink:ok", "delete:ok", "create:ok", "write:ok", "write:OSError"} :
        HasEvent(kp[r].log, e)

\* C22: nothing serialises two runs on one key name.  A run returns the
\* path with the file missing or not matching the registration only when
\* the other run has changed the file or the registration (alone, from a
\* consistent start, it never does); the witness is that state, reached
\* while the other run is still inside its call.
RaceC22_BadReturnNeedsOtherRun ==
    /\ KeyBadReturn(1) => KeyMutated(2)
    /\ KeyBadReturn(2) => KeyMutated(1)

RaceC22_Witness ==
    /\ KeyBadReturn(1)
    /\ kp[2].pc \notin {"idle", "returned"}
    /\ kp[1].file0 = [content |-> InstanceKey, mode |-> OwnerOnly] /\ kp[1].aws0 = InstanceKey

(***************************************************************************)
(* Claims about the polling loops (SpecPoll, SpecPollFair).                *)
(***************************************************************************)
QueryErrors == {DoesNotExist, "ClientError", "Exception"}

\* C29: a describe_stacks that raised inside wait_for_stack_creation, or
\* raised a client error other than 'does not exist' inside
\* wait_for_stack_deletion, was the last statement of the wait, which has
\* returned False; a get_password_data that raised was the last query of
\* get_instance_password (every earlier one came back empty), which has
\* returned None.
PollC29_QueryErrorEndsWait ==
    /\ (cw.fn = "create" /\ cw.last \in QueryErrors) =>
           WaitReturned("create") /\ cw.ret = "False" /\ cw.exit = "error"
    /\ (cw.fn = "delete" /\ cw.last = "ClientError") =>
           WaitReturned("delete") /\ cw.ret = "False" /\ cw.exit = "error"
    /\ pw.exit = "error" =>
           /\ PwReturned /\ pw.ret = None
           /\ pw.queries = pw.empties + 1 /\ pw.sleeps = pw.empties /\ pw.decrypts = 0

\* the second describe of a creation wait raised, after one that showed the
\* creation in progress and one sleep
PollC29_Witness ==
    /\ WaitReturned("create") /\ cw.exit = "error" /\ cw.last = "ClientError"
    /\ cw.describes = 2 /\ cw.status = "CREATE_IN_PROGRESS"

Ceil(a, b) == (a + b - 1) \div b

\* C30: each wait issues at most ceil(timeout / interval) status queries,
\* none when the timeout is 0, and a wait that has been entered returns.
PollC30_BoundedQueries ==
    /\ cw.fn # "-" => cw.describes <= Ceil(cw.timeout, SleepSecs)
    /\ pw.calls >= 1 => pw.queries <= Ceil(pw.max_wait, pw.poll_interval)
    /\ (WaitReturned("create") \/ WaitReturned("delete")) /\ cw.timeout = 0 =>
           cw.exit = "timeout" /\ cw.ret = "False" /\ cw.describes = 0
    /\ (PwReturned /\ pw.max_wait = 0) =>
           pw.exit = "timeout" /\ pw.ret = None /\ pw.queries = 0

PollRunning == cw.pc \notin {"idle", "returned"} \/ pw.pc \notin {"idle", "returned"}

PollC30_Terminates ==
    /\ []PollC30_BoundedQueries
    /\ PollRunning ~> ~PollRunning

\* a deletion wait has used its whole allowance of three queries for a
\* timeout of 25 s, and a password wait its two for 25 s polled every 15 s
PollC30_Witness ==
    \/ /\ WaitReturned("delete") /\ cw.timeout = 25 /\ cw.describes = 3
          /\ cw.exit = "timeout"
    \/ /\ PwReturned /\ pw.max_wait = 25 /\ pw.poll_interval = 15 /\ pw.queries = 2
          /\ pw.exit = "timeout"

====
